---- MODULE Spec2Model ----
(***************************************************************************)
(* Client-side mutation reconciliation and media-attachment pipeline of    *)
(* the task detail screen (TaskDetailScreen) and the expense-add screen    *)
(* (ExpenseAddScreen).  Every async handler is a small process whose       *)
(* program counter sits at one of the handler's await points; the remote   *)
(* data service and the object storage answer each request by a separate   *)
(* step, so that responses can arrive in any order.                        *)
(***************************************************************************)
EXTENDS Integers, Sequences, FiniteSets, TLC

(* ------------------------------ bounds --------------------------------- *)
\* Number of setStatus / updatePriority calls submitted in one behaviour.
MaxOps == 2
\* Number of processAndUpload runs (task photos) in one behaviour.
MaxUploads == 2
\* Number of deleteMedia runs in one behaviour.
MaxDeletes == 1
\* Number of loadMedia runs started by the screen itself (mount, refresh).
MaxLoads == 1
\* Largest value Date.now() takes while the clock ticks (it starts at 1).
MaxClock == 2
\* Number of ExpenseAddScreen.onSave runs, and of photos selected for one.
MaxSaves == 1
MaxPhotos == 2
\* Number of deleteExpense runs and of loadExpenses runs.
MaxExpDeletes == 1
MaxExpLoads == 1
\* Number of saveEditExpense runs and of createTask runs.
MaxEdits == 1
MaxCreates == 2
\* Number of task list loads (mount, refresh, tab change) in one behaviour.
MaxListLoads == 2

(* -------------------------- program constants -------------------------- *)
\* TaskStatus values offered by the status chips (transliterated).
STATUS_OPTIONS == {"yapilacak", "yapiliyor", "tamamlandi", "iptal"}
\* TaskPriority values.
PRIORITIES == {"low", "medium", "high"}
\* error.message values the remote service may answer with.
Messages == {"network error"}

NoError == "none"
\* HTTP statuses of an upload the storage service stored / refused.
OkStatuses == {200, 201}
FailStatuses == {500}
\* Status of an upload to a path that already holds an object ('x-upsert': 'false').
DuplicateStatus == 409
\* The signed-in user's id and the id of the task shown by the screen.
Uid == "u1"
\* Values of Math.random().toString(36).slice(2, 8).
Tokens == {"a", "b"}
TaskId == 7
\* createSignedUrl(path, 3600): the validity of a signed URL.
SignedUrlTtl == 3600

VARIABLES
    task,        \* useState<Task>: the in-memory task of the screen
    remoteTask,  \* the row the remote service holds for the task
    ops,         \* setStatus / updatePriority invocations, by submission order
    nOps,        \* number of invocations submitted so far
    storage,     \* object storage, bucket 'task-media': the paths that hold an object
    records,     \* remote table task_media: rows [id, storage_path]
    nextId,      \* next id the remote service assigns to a task_media row
    media,       \* useState<MediaRow[]>: the in-memory attachment list
    uploading,   \* useState<boolean>: the uploading flag
    now,         \* Date.now()
    ups,         \* processAndUpload runs
    dels,        \* deleteMedia runs
    loads,       \* loadMedia runs, by owner
    expRemote,   \* remote table expenses: the ids of the rows of the task
    expMedia,    \* remote table expense_media: rows [expense_id, storage_path]
    expStorage,  \* object storage, bucket 'expense-media'
    nextExpId,   \* next id the remote service assigns to an expense
    expenses,    \* useState<ExpenseWithMedia[]>: the in-memory expense list
    saves,       \* ExpenseAddScreen.onSave runs
    edels,       \* deleteExpense runs
    eloads,      \* loadExpenses runs
    mounted,     \* which screens are mounted
    data,        \* TasksScreen useState<Task[]>: the in-memory task list
    remoteTasks, \* remote table tasks: the rows of the project
    creates,     \* createTask runs
    edits,       \* saveEditExpense runs
    expAmounts,  \* remote table expenses: the amount (in hundredths) of row id
    resized,     \* the last manipulateAsync request and its result
    tab,         \* useState<TaskStatus | 'tumu'>: the selected status tab
    lists        \* runs of the task list's load()

taskVars == <<task, remoteTask, ops, nOps>>
mediaVars == <<storage, records, nextId, media, uploading, now, ups, dels, loads>>
expVars == <<expRemote, expMedia, expStorage, nextExpId, expenses, saves, edels, eloads>>
moreVars == <<mounted, data, remoteTasks, creates, edits, expAmounts, resized, tab, lists>>
vars == <<task, remoteTask, ops, nOps,
          storage, records, nextId, media, uploading, now, ups, dels, loads,
          expRemote, expMedia, expStorage, nextExpId, expenses, saves, edels, eloads,
          mounted, data, remoteTasks, creates, edits, expAmounts, resized, tab, lists>>

OpIds == 1..MaxOps

\* A handler invocation that has not been submitted yet.
IdleOp ==
    [pc |-> "idle", kind |-> "status", next |-> "yapilacak",
     snap |-> [status |-> "yapilacak", priority |-> "low"],
     prev |-> "yapilacak", error |-> NoError,
     data |-> [status |-> "yapilacak", priority |-> "low"],
     before |-> [status |-> "yapilacak", priority |-> "low"],
     after |-> [status |-> "yapilacak", priority |-> "low"],
     alone |-> TRUE, late |-> FALSE, calls |-> <<>>, toasts |-> <<>>]

\* The task row as loaded by load() before any mutation.
InitialTask == [status |-> "yapilacak", priority |-> "low"]

TaskInit ==
    /\ task = InitialTask
    /\ remoteTask = InitialTask
    /\ ops = [o \in OpIds |-> IdleOp]
    /\ nOps = 0

(* ------------------------ setStatus / updatePriority ------------------- *)
\* { ...task, status: next } / { ...task, priority: next } on a closure value.
WithField(t, kind, v) ==
    IF kind = "status" THEN [t EXCEPT !.status = v] ELSE [t EXCEPT !.priority = v]

FieldOf(t, kind) == IF kind = "status" THEN t.status ELSE t.priority

\* The handler is entered: it closes over the task of the current render and
\* suspends at `await Haptics.selectionAsync()`.
Submit(kind, next) ==
    /\ nOps < MaxOps
    /\ mounted["detail"]
    /\ nOps' = nOps + 1
    /\ ops' = [o \in OpIds |->
                 IF o = nOps + 1
                   THEN [IdleOp EXCEPT !.pc = "haptic", !.kind = kind, !.next = next,
                                       !.snap = task,
                                       !.alone = \A p \in OpIds : ops[p].pc \in {"idle", "done"}]
                 ELSE IF ops[o].pc \in {"idle", "done"} THEN ops[o]
                 ELSE [ops[o] EXCEPT !.alone = FALSE]]
    /\ UNCHANGED <<task, remoteTask, mediaVars, expVars, moreVars>>

setStatus(next) == Submit("status", next)

updatePriority(next) == Submit("priority", next)

\* After the haptic: prev is read from the closure, the optimistic value is
\* written over the closure's task, and the remote update is issued.
ApplyOptimistic(o) ==
    /\ ops[o].pc = "haptic"
    /\ task' = IF mounted["detail"]
                 THEN WithField(ops[o].snap, ops[o].kind, ops[o].next) ELSE task
    /\ ops' = [ops EXCEPT ![o].pc = "sent",
                          ![o].calls = Append(@, "task.update"),
                          ![o].prev = FieldOf(ops[o].snap, ops[o].kind),
                          ![o].before = task]
    /\ UNCHANGED <<remoteTask, nOps, mediaVars, expVars, moreVars>>

\* The remote service accepts the update and answers with the updated row.
RemoteUpdateOk(o) ==
    /\ ops[o].pc = "sent"
    /\ remoteTask' = WithField(remoteTask, ops[o].kind, ops[o].next)
    /\ ops' = [ops EXCEPT ![o].pc = "replied", ![o].error = NoError,
                          ![o].data = remoteTask']
    /\ UNCHANGED <<task, nOps, mediaVars, expVars, moreVars>>

\* The remote service (or the transport) rejects the update.
RemoteUpdateFail(o) ==
    /\ ops[o].pc = "sent"
    /\ \E msg \in Messages :
         ops' = [ops EXCEPT ![o].pc = "replied", ![o].error = msg]
    /\ UNCHANGED <<task, remoteTask, nOps, mediaVars, expVars, moreVars>>

\* A handler that leaves the optimistic value in place.
RolledBackKeepsNext(o) == WithField(ops[o].snap, ops[o].kind, ops[o].next)

\* The state written on a failed update: the closure's task with the field
\* put back to prev.
RolledBack(o) == WithField(ops[o].snap, ops[o].kind, ops[o].prev)

\* A handler that issues the update again when it failed.
ReconcileRetrying(o) ==
    /\ ops[o].pc = "replied"
    /\ ops' = [ops EXCEPT ![o].pc = IF ops[o].error # NoError THEN "sent" ELSE "done",
                          ![o].calls = IF ops[o].error # NoError
                                         THEN Append(@, "task.update") ELSE @]
    /\ UNCHANGED <<task, remoteTask, nOps, mediaVars, expVars, moreVars>>

\* The awaited update returns: roll back on error, else take the returned row.
Reconcile(o) ==
    /\ ops[o].pc = "replied"
    /\ task' = IF ~mounted["detail"] THEN task
                 ELSE IF ops[o].error # NoError THEN RolledBack(o) ELSE ops[o].data
    /\ ops' = [ops EXCEPT
                 ![o].pc = "done",
                 ![o].after = task',
                 ![o].late = ~mounted["detail"],
                 ![o].toasts = Append(@,
                     IF ops[o].error # NoError
                       THEN [type |-> "error", text1 |-> "Hata", text2 |-> ops[o].error]
                       ELSE [type |-> "success", text1 |-> "Guncellendi",
                             text2 |-> IF ops[o].kind = "status"
                                         THEN "Durum guncellendi."
                                         ELSE "Oncelik guncellendi."])]
    /\ UNCHANGED <<remoteTask, nOps, mediaVars, expVars, moreVars>>

\* The screen is unmounted: its state is discarded, and later setState calls
\* of handlers still running are dropped.
Unmount(screen) ==
    /\ mounted[screen]
    /\ mounted' = [mounted EXCEPT ![screen] = FALSE]
    /\ UNCHANGED <<taskVars, mediaVars, expVars, data, remoteTasks, creates, edits,
                   expAmounts, resized, tab, lists>>

TaskNext ==
    \/ \E s \in STATUS_OPTIONS : setStatus(s)
    \/ \E p \in PRIORITIES : updatePriority(p)
    \/ \E o \in OpIds : ApplyOptimistic(o)
    \/ \E o \in OpIds : RemoteUpdateOk(o)
    \/ \E o \in OpIds : RemoteUpdateFail(o)
    \/ \E o \in OpIds : Reconcile(o)

(* ----------------------------- task media ------------------------------ *)
UpIds == 1..MaxUploads
DelIds == 1..MaxDeletes
LoadIds == 1..MaxLoads

\* A loadMedia run belongs to the screen (mount, refresh) or to the
\* processAndUpload / deleteMedia run that awaits it.
Owners == ({"screen"} \X LoadIds) \cup ({"up"} \X UpIds) \cup ({"del"} \X DelIds)

NoPath == <<>>
NoRow == [id |-> 0, storage_path |-> NoPath]

IdleUp ==
    [pc |-> "idle", storagePath |-> NoPath, status |-> 0, dbErr |-> NoError,
     rowId |-> 0, calls |-> <<>>, toasts |-> <<>>]

IdleDel ==
    [pc |-> "idle", row |-> NoRow, sErr |-> NoError, dErr |-> NoError,
     unlisted |-> FALSE, restored |-> FALSE, calls |-> <<>>, toasts |-> <<>>]

\* signedAt: the time makeSigned called createSignedUrl, -1 before; signErr:
\* the error createSignedUrl answered with.
IdleLoad ==
    [pc |-> "idle", rows |-> <<>>, error |-> NoError, signedAt |-> -1,
     signErr |-> NoError, toasts |-> <<>>]

MediaInit ==
    /\ storage = {}
    /\ records = {}
    /\ nextId = 1
    /\ media = <<>>
    /\ uploading = FALSE
    /\ now = 1
    /\ ups = [u \in UpIds |-> IdleUp]
    /\ dels = [d \in DelIds |-> IdleDel]
    /\ loads = [w \in Owners |-> IdleLoad]

Toast(type, text1, text2) == [type |-> type, text1 |-> text1, text2 |-> text2]

\* .order('created_at', { ascending: false }): ids grow with creation time.
RECURSIVE RowsDesc(_)
RowsDesc(S) ==
    IF S = {} THEN <<>>
    ELSE LET r == CHOOSE x \in S : \A y \in S : y.id <= x.id
         IN  <<r>> \o RowsDesc(S \ {r})

\* prev.filter((m) => m.id !== id)
RECURSIVE FilterOut(_, _)
FilterOut(list, id) ==
    IF list = <<>> THEN <<>>
    ELSE IF Head(list).id = id THEN FilterOut(Tail(list), id)
         ELSE <<Head(list)>> \o FilterOut(Tail(list), id)

InList(list, id) == \E i \in 1..Len(list) : list[i].id = id

\* Date.now() advances.
Tick ==
    /\ now < MaxClock
    /\ now' = now + 1
    /\ UNCHANGED <<taskVars, storage, records, nextId, media, uploading, ups, dels, loads, expVars, moreVars>>

(* ------------------------------ loadMedia ------------------------------ *)
\* The screen starts loadMedia (mount effect, pull to refresh): the select is issued.
loadMedia(i) ==
    /\ loads[<<"screen", i>>].pc = "idle"
    /\ \A j \in LoadIds : j < i => loads[<<"screen", j>>].pc # "idle"
    /\ loads' = [loads EXCEPT ![<<"screen", i>>].pc = "select"]
    /\ UNCHANGED <<taskVars, storage, records, nextId, media, uploading, now, ups, dels, expVars, moreVars>>

\* The remote service answers the select with the task_media rows, newest first.
SelectAnswerOk(w) ==
    /\ loads[w].pc = "select"
    /\ loads' = [loads EXCEPT ![w].pc = "selected", ![w].rows = RowsDesc(records),
                              ![w].error = NoError]
    /\ UNCHANGED <<taskVars, storage, records, nextId, media, uploading, now, ups, dels, expVars, moreVars>>

SelectAnswerFail(w) ==
    /\ loads[w].pc = "select"
    /\ \E msg \in Messages :
         loads' = [loads EXCEPT ![w].pc = "selected", ![w].error = msg]
    /\ UNCHANGED <<taskVars, storage, records, nextId, media, uploading, now, ups, dels, expVars, moreVars>>

\* What the awaiting handler does once its loadMedia returned: processAndUpload
\* reaches its finally block, deleteMedia returns.
UpsAfterLoad(w) ==
    IF w[1] = "up" THEN [ups EXCEPT ![w[2]].pc = "done"] ELSE ups

DelsAfterLoad(w) ==
    IF w[1] = "del" THEN [dels EXCEPT ![w[2]].pc = "done"] ELSE dels

UploadingAfterLoad(w) == IF w[1] = "up" THEN FALSE ELSE uploading

\* The select returns to loadMedia: on error a toast and return, else makeSigned
\* starts signing the rows one by one.
SelectReturn(w) ==
    /\ loads[w].pc = "selected"
    /\ IF loads[w].error # NoError
         THEN /\ loads' = [loads EXCEPT ![w].pc = "done",
                             ![w].toasts = Append(@, Toast("error", "Hata", loads[w].error))]
              /\ ups' = UpsAfterLoad(w)
              /\ dels' = DelsAfterLoad(w)
              /\ uploading' = UploadingAfterLoad(w)
         ELSE /\ loads' = [loads EXCEPT ![w].pc = "sign"]
              /\ UNCHANGED <<ups, dels, uploading>>
    /\ UNCHANGED <<taskVars, storage, records, nextId, media, now, expVars, moreVars>>

\* s?.signedUrl of a sign call that answered with an error.
NoUrl == [path |-> NoPath, expires |-> 0]

\* The URL createSignedUrl(path, 3600) answers with at time t.
SignedUrl(path, t) == [path |-> path, expires |-> t + SignedUrlTtl]

\* out.push({ ...row, signedUrl: s?.signedUrl }) for every row.
SignRows(rows, t) ==
    [i \in 1..Len(rows) |->
       [id |-> rows[i].id, storage_path |-> rows[i].storage_path,
        signedUrl |-> SignedUrl(rows[i].storage_path, t)]]

UnsignedRows(rows) ==
    [i \in 1..Len(rows) |->
       [id |-> rows[i].id, storage_path |-> rows[i].storage_path, signedUrl |-> NoUrl]]

\* makeSigned is through (every row signed anew): setMedia(rows).
MakeSignedDone(w) ==
    /\ loads[w].pc = "sign"
    /\ media' = SignRows(loads[w].rows, now)
    /\ loads' = [loads EXCEPT ![w].pc = "done", ![w].rows = media',
                              ![w].signedAt = IF loads[w].rows = <<>> THEN -1 ELSE now]
    /\ ups' = UpsAfterLoad(w)
    /\ dels' = DelsAfterLoad(w)
    /\ uploading' = UploadingAfterLoad(w)
    /\ UNCHANGED <<taskVars, storage, records, nextId, now, expVars, moreVars>>

\* createSignedUrl answers with an error: makeSigned drops it, the rows get no URL.
MakeSignedFail(w) ==
    /\ loads[w].pc = "sign"
    /\ loads[w].rows # <<>>
    /\ media' = UnsignedRows(loads[w].rows)
    /\ \E msg \in Messages :
         loads' = [loads EXCEPT ![w].pc = "done", ![w].rows = media',
                                ![w].signedAt = now, ![w].signErr = msg]
    /\ ups' = UpsAfterLoad(w)
    /\ dels' = DelsAfterLoad(w)
    /\ uploading' = UploadingAfterLoad(w)
    /\ UNCHANGED <<taskVars, storage, records, nextId, now, expVars, moreVars>>

\* The screen stays open while a signed URL's validity passes.
Elapse ==
    /\ now < SignedUrlTtl
    /\ now' = now + SignedUrlTtl
    /\ UNCHANGED <<taskVars, storage, records, nextId, media, uploading, ups, dels, loads, expVars, moreVars>>

(* --------------------------- processAndUpload -------------------------- *)
\* processAndUpload(uri, w, h) with a uri: setUploading(true), then the
\* image manipulation is awaited.
processAndUpload(u) ==
    /\ ups[u].pc = "idle"
    /\ \A v \in UpIds : v < u => ups[v].pc # "idle"
    /\ uploading' = TRUE
    /\ ups' = [ups EXCEPT ![u].pc = "manip", ![u].calls = Append(@, "manipulate")]
    /\ UNCHANGED <<taskVars, storage, records, nextId, media, now, dels, loads, expVars, moreVars>>

\* manipulateAsync resolves; getSession and getUser are awaited.
ManipulateDone(u) ==
    /\ ups[u].pc = "manip"
    /\ ups' = [ups EXCEPT ![u].pc = "auth", ![u].calls = Append(@, "auth")]
    /\ UNCHANGED <<taskVars, storage, records, nextId, media, uploading, now, dels, loads, expVars, moreVars>>

\* manipulateAsync rejects: catch (toast), finally setUploading(false).
ManipulateThrow(u) ==
    /\ ups[u].pc = "manip"
    /\ \E msg \in Messages :
         ups' = [ups EXCEPT ![u].pc = "done",
                            ![u].toasts = Append(@, Toast("error", "Hata", msg))]
    /\ uploading' = FALSE
    /\ UNCHANGED <<taskVars, storage, records, nextId, media, now, dels, loads, expVars, moreVars>>

\* `${uid}/${task.id}/${Date.now()}.jpg`
TaskStoragePath(uid, taskId, t) == <<uid, taskId, t>>

\* The session and the user are back.  Without a token or a user id: toast and
\* return.  Else the path is derived and the upload is issued.
AuthReturn(u, hasSession) ==
    /\ ups[u].pc = "auth"
    /\ IF ~hasSession
         THEN /\ ups' = [ups EXCEPT ![u].pc = "done",
                           ![u].toasts = Append(@, Toast("error", "Oturum yok", "login"))]
              /\ uploading' = FALSE
         ELSE /\ ups' = [ups EXCEPT ![u].pc = "upload",
                           ![u].storagePath = TaskStoragePath(Uid, TaskId, now),
                           ![u].calls = Append(@, "upload")]
              /\ UNCHANGED uploading
    /\ UNCHANGED <<taskVars, storage, records, nextId, media, now, dels, loads, expVars, moreVars>>

\* The storage service stores the object and answers 200 / 201.
StorageUploadOk(u) ==
    /\ ups[u].pc = "upload"
    /\ ups[u].storagePath \notin storage
    /\ storage' = storage \cup {ups[u].storagePath}
    /\ \E st \in OkStatuses : ups' = [ups EXCEPT ![u].pc = "uploaded", ![u].status = st]
    /\ UNCHANGED <<taskVars, records, nextId, media, uploading, now, dels, loads, expVars, moreVars>>

\* The storage service refuses the upload: the path is taken, or another failure.
StorageUploadFail(u) ==
    /\ ups[u].pc = "upload"
    /\ \E st \in (IF ups[u].storagePath \in storage THEN {DuplicateStatus} ELSE FailStatuses) :
         ups' = [ups EXCEPT ![u].pc = "uploaded", ![u].status = st]
    /\ UNCHANGED <<taskVars, storage, records, nextId, media, uploading, now, dels, loads, expVars, moreVars>>

\* FileSystem.uploadAsync rejects (no response): status 0 stands for the throw.
StorageUploadThrow(u) ==
    /\ ups[u].pc = "upload"
    /\ ups' = [ups EXCEPT ![u].pc = "uploaded", ![u].status = 0]
    /\ UNCHANGED <<taskVars, storage, records, nextId, media, uploading, now, dels, loads, expVars, moreVars>>

\* A handler that refuses server errors only.
UploadRefusedServerError(status) == status >= 500

\* resp.status !== 200 && resp.status !== 201
UploadRefused(status) == status # 200 /\ status # 201

\* uploadAsync returns: a throw goes to catch, a refused status to a toast and
\* return; else the task_media insert is issued.
UploadReturn(u) ==
    /\ ups[u].pc = "uploaded"
    /\ IF ups[u].status = 0
         THEN /\ ups' = [ups EXCEPT ![u].pc = "done",
                           ![u].toasts = Append(@, Toast("error", "Hata", "network error"))]
              /\ uploading' = FALSE
         ELSE IF UploadRefused(ups[u].status)
         THEN /\ ups' = [ups EXCEPT ![u].pc = "done",
                           ![u].toasts = Append(@, Toast("error", "Yukleme hatasi", <<"Durum", ups[u].status>>))]
              /\ uploading' = FALSE
         ELSE /\ ups' = [ups EXCEPT ![u].pc = "insert", ![u].calls = Append(@, "insert")]
              /\ UNCHANGED uploading
    /\ UNCHANGED <<taskVars, storage, records, nextId, media, now, dels, loads, expVars, moreVars>>

\* The remote service inserts the task_media row.
DbInsertOk(u) ==
    /\ ups[u].pc = "insert"
    /\ records' = records \cup {[id |-> nextId, storage_path |-> ups[u].storagePath]}
    /\ nextId' = nextId + 1
    /\ ups' = [ups EXCEPT ![u].pc = "inserted", ![u].dbErr = NoError,
                          ![u].rowId = nextId]
    /\ UNCHANGED <<taskVars, storage, media, uploading, now, dels, loads, expVars, moreVars>>

DbInsertFail(u) ==
    /\ ups[u].pc = "insert"
    /\ \E msg \in Messages : ups' = [ups EXCEPT ![u].pc = "inserted", ![u].dbErr = msg]
    /\ UNCHANGED <<taskVars, storage, records, nextId, media, uploading, now, dels, loads, expVars, moreVars>>

\* A handler that undoes the upload when the insert failed.
InsertReturnUndoingUpload(u) ==
    /\ ups[u].pc = "inserted"
    /\ ups[u].dbErr # NoError
    /\ ups' = [ups EXCEPT ![u].pc = "done", ![u].calls = Append(@, "remove"),
                          ![u].toasts = Append(@, Toast("error", "Kayit hatasi", ups[u].dbErr))]
    /\ storage' = storage \ {ups[u].storagePath}
    /\ uploading' = FALSE
    /\ UNCHANGED <<taskVars, records, nextId, media, now, dels, loads, expVars, moreVars>>

\* The insert returns: on error a toast and return; else the success toast and
\* `await loadMedia()`.
InsertReturn(u) ==
    /\ ups[u].pc = "inserted"
    /\ IF ups[u].dbErr # NoError
         THEN /\ ups' = [ups EXCEPT ![u].pc = "done",
                           ![u].toasts = Append(@, Toast("error", "Kayit hatasi", ups[u].dbErr))]
              /\ uploading' = FALSE
              /\ UNCHANGED loads
         ELSE /\ ups' = [ups EXCEPT ![u].pc = "loading",
                           ![u].calls = Append(@, "loadMedia"),
                           ![u].toasts = Append(@, Toast("success", "Yuklendi", "Fotograf eklendi."))]
              /\ loads' = [loads EXCEPT ![<<"up", u>>].pc = "select"]
              /\ UNCHANGED uploading
    /\ UNCHANGED <<taskVars, storage, records, nextId, media, now, dels, expVars, moreVars>>

(* ------------------------------ deleteMedia ---------------------------- *)
\* deleteMedia(row) for the i-th row of the rendered list; the haptic is awaited.
deleteMedia(d, i) ==
    /\ i <= Len(media)
    /\ dels[d].pc = "idle"
    /\ \A e \in DelIds : e < d => dels[e].pc # "idle"
    /\ dels' = [dels EXCEPT ![d].pc = "haptic", ![d].row = media[i]]
    /\ UNCHANGED <<taskVars, storage, records, nextId, media, uploading, now, ups, loads, expVars, moreVars>>

\* A handler that rebuilds the path from the row's id.
RemovePathFromId(row) == TaskStoragePath(Uid, TaskId, row.id)

\* The path deleteMedia hands to storage.remove.
RemovePath(row) == row.storage_path

\* After the haptic: the row leaves the in-memory list and storage.remove is issued.
DeleteOptimistic(d) ==
    /\ dels[d].pc = "haptic"
    /\ media' = FilterOut(media, dels[d].row.id)
    /\ dels' = [dels EXCEPT ![d].pc = "sremove",
                            ![d].unlisted = ~InList(media', dels[d].row.id),
                            ![d].calls = @ \o <<<<"unlist", dels[d].row.id>>,
                                               <<"storage.remove", RemovePath(dels[d].row)>>>>]
    /\ UNCHANGED <<taskVars, storage, records, nextId, uploading, now, ups, loads, expVars, moreVars>>

\* The storage service removes the object (a path without object is no error).
StorageRemoveOk(d) ==
    /\ dels[d].pc = "sremove"
    /\ storage' = storage \ {RemovePath(dels[d].row)}
    /\ dels' = [dels EXCEPT ![d].pc = "sremoved", ![d].sErr = NoError]
    /\ UNCHANGED <<taskVars, records, nextId, media, uploading, now, ups, loads, expVars, moreVars>>

StorageRemoveFail(d) ==
    /\ dels[d].pc = "sremove"
    /\ \E msg \in Messages : dels' = [dels EXCEPT ![d].pc = "sremoved", ![d].sErr = msg]
    /\ UNCHANGED <<taskVars, storage, records, nextId, media, uploading, now, ups, loads, expVars, moreVars>>

\* A handler that does not look at the answer of storage.remove.
StorageRemoveNeverFailed(d) == FALSE

\* if (sErr): what the handler does with the answer of storage.remove.
StorageRemoveFailed(d) == dels[d].sErr # NoError

\* storage.remove returns: on error the row is put back in front and a toast
\* shown; else the task_media delete is issued.
StorageRemoveReturn(d) ==
    /\ dels[d].pc = "sremoved"
    /\ IF StorageRemoveFailed(d)
         THEN /\ media' = <<dels[d].row>> \o media
              /\ dels' = [dels EXCEPT ![d].pc = "done",
                            ![d].restored = InList(media', dels[d].row.id),
                            ![d].toasts = Append(@, Toast("error", "Silme hatasi", dels[d].sErr))]
         ELSE /\ dels' = [dels EXCEPT ![d].pc = "rdelete",
                            ![d].calls = Append(@, <<"record.delete", dels[d].row.id>>)]
              /\ UNCHANGED media
    /\ UNCHANGED <<taskVars, storage, records, nextId, uploading, now, ups, loads, expVars, moreVars>>

\* The remote service deletes the task_media row.
DbDeleteOk(d) ==
    /\ dels[d].pc = "rdelete"
    /\ records' = {r \in records : r.id # dels[d].row.id}
    /\ dels' = [dels EXCEPT ![d].pc = "rdeleted", ![d].dErr = NoError]
    /\ UNCHANGED <<taskVars, storage, nextId, media, uploading, now, ups, loads, expVars, moreVars>>

DbDeleteFail(d) ==
    /\ dels[d].pc = "rdelete"
    /\ \E msg \in Messages : dels' = [dels EXCEPT ![d].pc = "rdeleted", ![d].dErr = msg]
    /\ UNCHANGED <<taskVars, storage, records, nextId, media, uploading, now, ups, loads, expVars, moreVars>>

\* A handler that does not look at the answer of the record delete.
DbDeleteNeverFailed(d) == FALSE

\* if (dErr): what the handler does with the answer of the record delete.
DbDeleteFailed(d) == dels[d].dErr # NoError

\* The record delete returns: on error a toast and `await loadMedia()`; else
\* the success toast.
RecordDeleteReturn(d) ==
    /\ dels[d].pc = "rdeleted"
    /\ IF DbDeleteFailed(d)
         THEN /\ dels' = [dels EXCEPT ![d].pc = "loading",
                            ![d].calls = Append(@, <<"loadMedia", dels[d].row.id>>),
                            ![d].toasts = Append(@, Toast("error", "Kayit silinemedi", dels[d].dErr))]
              /\ loads' = [loads EXCEPT ![<<"del", d>>].pc = "select"]
         ELSE /\ dels' = [dels EXCEPT ![d].pc = "done",
                            ![d].toasts = Append(@, Toast("success", "Silindi", "Fotograf kaldirildi."))]
              /\ UNCHANGED loads
    /\ UNCHANGED <<taskVars, storage, records, nextId, media, uploading, now, ups, expVars, moreVars>>

MediaNext ==
    \/ Tick
    \/ \E i \in LoadIds : loadMedia(i)
    \/ \E w \in Owners : SelectAnswerOk(w)
    \/ \E w \in Owners : SelectAnswerFail(w)
    \/ \E w \in Owners : SelectReturn(w)
    \/ \E w \in Owners : MakeSignedDone(w)
    \/ \E u \in UpIds : processAndUpload(u)
    \/ \E u \in UpIds : ManipulateDone(u)
    \/ \E u \in UpIds : ManipulateThrow(u)
    \/ \E u \in UpIds, hasSession \in BOOLEAN : AuthReturn(u, hasSession)
    \/ \E u \in UpIds : StorageUploadOk(u)
    \/ \E u \in UpIds : StorageUploadFail(u)
    \/ \E u \in UpIds : StorageUploadThrow(u)
    \/ \E u \in UpIds : UploadReturn(u)
    \/ \E u \in UpIds : DbInsertOk(u)
    \/ \E u \in UpIds : DbInsertFail(u)
    \/ \E u \in UpIds : InsertReturn(u)
    \/ \E d \in DelIds, i \in 1..MaxUploads : deleteMedia(d, i)
    \/ \E d \in DelIds : DeleteOptimistic(d)
    \/ \E d \in DelIds : StorageRemoveOk(d)
    \/ \E d \in DelIds : StorageRemoveFail(d)
    \/ \E d \in DelIds : StorageRemoveReturn(d)
    \/ \E d \in DelIds : DbDeleteOk(d)
    \/ \E d \in DelIds : DbDeleteFail(d)
    \/ \E d \in DelIds : RecordDeleteReturn(d)

(* ------------------------- expenses: in-memory ------------------------- *)
SaveIds == 1..MaxSaves
ExpDelIds == 1..MaxExpDeletes
ExpLoadIds == 1..MaxExpLoads

NoExpense == [id |-> 0, amount |-> 0, media |-> {}, signedUrl |-> NoUrl]

IdleSave ==
    [pc |-> "idle", n |-> 0, k |-> 0, expenseId |-> 0, expErr |-> NoError,
     ph |-> <<>>, saving |-> FALSE, uploading |-> FALSE, wentBack |-> FALSE,
     amountText |-> <<>>, amount |-> 0, companyErr |-> NoError,
     calls |-> <<>>, toasts |-> <<>>]

\* One selected photo of an onSave run: the path derived for it, the status
\* its upload returned (0: none yet, or a throw), the answer of its insert.
NewPhoto(path) == [storagePath |-> path, status |-> 0, dbErr |-> NoError, inserted |-> FALSE]

IdleExpDel ==
    [pc |-> "idle", row |-> NoExpense, mErr |-> NoError, paths |-> {},
     sErr |-> NoError, removedOk |-> FALSE, dErr |-> NoError,
     calls |-> <<>>, toasts |-> <<>>]

IdleExpLoad ==
    [pc |-> "idle", rows |-> <<>>, error |-> NoError, signedAt |-> -1,
     signErr |-> NoError, toasts |-> <<>>]

ExpenseInit ==
    /\ expRemote = {}
    /\ expMedia = {}
    /\ expStorage = {}
    /\ nextExpId = 1
    /\ expenses = <<>>
    /\ saves = [s \in SaveIds |-> IdleSave]
    /\ edels = [e \in ExpDelIds |-> IdleExpDel]
    /\ eloads = [l \in ExpLoadIds |-> IdleExpLoad]

(* ------------------------ ExpenseAddScreen.onSave ---------------------- *)
\* catch (toast with e.message) and finally (setUploading(false), setSaving(false)).
SaveCaught(sv, msg) ==
    [sv EXCEPT !.pc = "done", !.saving = FALSE, !.uploading = FALSE,
               !.toasts = Append(@, Toast("error", "Hata", msg))]

(* ------------------------------ amounts -------------------------------- *)
\* Texts are sequences of characters.  The amount texts typed in the model
\* have at most three decimals.
AmountTexts ==
    { <<"1", "2", ",", "5", "0">>, <<"0">>, <<"-", "5">>, <<>>, <<" ">>,
      <<"a", "b", "c">>, <<"1", ",", "2", ",", "3">> }

Digit == "0" :> 0 @@ "1" :> 1 @@ "2" :> 2 @@ "3" :> 3 @@ "4" :> 4 @@
         "5" :> 5 @@ "6" :> 6 @@ "7" :> 7 @@ "8" :> 8 @@ "9" :> 9

\* String.prototype.trim
RECURSIVE Trim(_)
Trim(t) ==
    IF t = <<>> THEN t
    ELSE IF Head(t) = " " THEN Trim(Tail(t))
    ELSE IF t[Len(t)] = " " THEN Trim(SubSeq(t, 1, Len(t) - 1))
    ELSE t

\* A handler that leaves the comma in place.
KeepComma(t) == t

\* String.prototype.replace(',', '.'): the first comma only.
RECURSIVE ReplaceComma(_)
ReplaceComma(t) ==
    IF t = <<>> THEN <<>>
    ELSE IF Head(t) = "," THEN <<".">> \o Tail(t)
    ELSE <<Head(t)>> \o ReplaceComma(Tail(t))

RECURSIVE DigitsValue(_)
DigitsValue(ds) ==
    IF ds = <<>> THEN 0
    ELSE DigitsValue(SubSeq(ds, 1, Len(ds) - 1)) * 10 + Digit[ds[Len(ds)]]

NaN == [nan |-> TRUE, milli |-> 0]

\* Number(text) for decimal literals, in thousandths: the empty text is 0, a
\* text that is no decimal literal is NaN.
Number(t) ==
    LET u == Trim(t)
        signed == u # <<>> /\ u[1] \in {"-", "+"}
        body == IF signed THEN Tail(u) ELSE u
        dots == {i \in 1..Len(body) : body[i] = "."}
        d == IF dots = {} THEN Len(body) + 1 ELSE CHOOSE i \in dots : \A j \in dots : i <= j
        ip == SubSeq(body, 1, d - 1)
        fp == SubSeq(body, d + 1, Len(body))
        digits(x) == \A i \in 1..Len(x) : x[i] \in DOMAIN Digit
        abs == DigitsValue(ip) * 1000 +
               DigitsValue(fp) * (IF Len(fp) = 1 THEN 100 ELSE IF Len(fp) = 2 THEN 10 ELSE 1)
    IN  IF u = <<>> THEN [nan |-> FALSE, milli |-> 0]
        ELSE IF ~(digits(ip) /\ digits(fp) /\ Len(ip) + Len(fp) > 0 /\ Len(fp) <= 3) THEN NaN
        ELSE [nan |-> FALSE, milli |-> IF u[1] = "-" THEN 0 - abs ELSE abs]

\* Number(String(amountText).replace(',', '.'))
amountNum(amountText) == Number(ReplaceComma(amountText))

\* Number.isFinite(amountNum) && amountNum > 0
isAmountValid(amountText) ==
    ~amountNum(amountText).nan /\ amountNum(amountText).milli > 0

\* Math.round(n * 100) / 100, in hundredths.
RoundedAmount(n) == (n.milli + 5) \div 10

\* onSave with n selected photos.  An invalid amount: toast and return.  Else
\* setSaving(true), and the session and the user are awaited.
onSave(s, n, amountText) ==
    /\ saves[s].pc = "idle"
    /\ \A t \in SaveIds : t < s => saves[t].pc = "done"
    /\ IF ~isAmountValid(amountText)
         THEN saves' = [saves EXCEPT ![s].pc = "done", ![s].amountText = amountText,
                          ![s].toasts = Append(@, Toast("error", "Tutar gerekli", "amount"))]
         ELSE saves' = [saves EXCEPT ![s].pc = "auth", ![s].n = n, ![s].saving = TRUE,
                          ![s].amountText = amountText,
                          ![s].calls = Append(@, "auth")]
    /\ UNCHANGED <<taskVars, mediaVars, moreVars, expRemote, expMedia, expStorage, nextExpId,
                   expenses, edels, eloads>>

\* The session is back: without token or user id an Error is thrown; else the
\* project's company is selected.
SaveAuthReturn(s, hasSession) ==
    /\ saves[s].pc = "auth"
    /\ saves' = [saves EXCEPT ![s] =
                   IF ~hasSession THEN SaveCaught(@, "Oturum bulunamadi.")
                   ELSE [@ EXCEPT !.pc = "company", !.calls = Append(@, "company")]]
    /\ UNCHANGED <<taskVars, mediaVars, moreVars, expRemote, expMedia, expStorage, nextExpId,
                   expenses, edels, eloads>>

\* The company row is back: without it an Error is thrown; else the expense
\* insert is issued.
\* (answer: "row", "none" when the select found no company, or the error's
\* message, which the handler does not read.)
CompanyReturn(s, answer) ==
    /\ saves[s].pc = "company"
    /\ saves' = [saves EXCEPT ![s] =
                   IF answer = "none" THEN SaveCaught(@, "Sirket bulunamadi.")
                   ELSE IF answer # "row"
                     THEN [SaveCaught(@, "Sirket bulunamadi.") EXCEPT !.companyErr = answer]
                   ELSE [@ EXCEPT !.pc = "expinsert",
                                  !.amount = RoundedAmount(amountNum(saves[s].amountText)),
                                  !.calls = Append(@, "expense.insert")]]
    /\ UNCHANGED <<taskVars, mediaVars, moreVars, expRemote, expMedia, expStorage, nextExpId,
                   expenses, edels, eloads>>

\* The remote service inserts the expense row and returns its id.
ExpInsertOk(s) ==
    /\ saves[s].pc = "expinsert"
    /\ expRemote' = expRemote \cup {nextExpId}
    /\ nextExpId' = nextExpId + 1
    /\ expAmounts' = Append(expAmounts, saves[s].amount)
    /\ saves' = [saves EXCEPT ![s].pc = "expinserted", ![s].expenseId = nextExpId]
    /\ UNCHANGED <<taskVars, mediaVars, expMedia, expStorage, expenses, edels, eloads,
                   mounted, data, remoteTasks, creates, edits, resized, tab, lists>>

ExpInsertFail(s) ==
    /\ saves[s].pc = "expinsert"
    /\ \E msg \in Messages :
         saves' = [saves EXCEPT ![s].pc = "expinserted", ![s].expErr = msg]
    /\ UNCHANGED <<taskVars, mediaVars, moreVars, expRemote, expMedia, expStorage, nextExpId,
                   expenses, edels, eloads>>

\* The end of the try block: the success toast and navRef.goBack(); finally.
SaveSucceeded(sv) ==
    [sv EXCEPT !.pc = "done", !.saving = FALSE, !.uploading = FALSE, !.wentBack = TRUE,
               !.toasts = Append(@, Toast("success", "Eklendi", "Harcama kaydedildi."))]

\* The loop reaches photo k: its manipulation is awaited.
StartPhoto(sv, k) ==
    [sv EXCEPT !.pc = "manip", !.k = k, !.calls = Append(@, "manipulate")]

\* The expense insert returns: an error is thrown; with photos the loop starts
\* (setUploading(true)); without any the save is through.
ExpInsertReturn(s) ==
    /\ saves[s].pc = "expinserted"
    /\ saves' = [saves EXCEPT ![s] =
                   IF saves[s].expErr # NoError THEN SaveCaught(@, saves[s].expErr)
                   ELSE IF saves[s].n > 0 THEN [StartPhoto(@, 1) EXCEPT !.uploading = TRUE]
                   ELSE SaveSucceeded(@)]
    /\ UNCHANGED <<taskVars, mediaVars, moreVars, expRemote, expMedia, expStorage, nextExpId,
                   expenses, edels, eloads>>

\* `${uid}/${expenseId}/${Date.now()}_${Math.random().toString(36).slice(2, 8)}.jpg`
ExpenseStoragePath(uid, expenseId, t, token) == <<uid, expenseId, t, token>>

\* The manipulated photo is back: its path is derived and its upload issued.
SaveManipulateDone(s, token) ==
    /\ saves[s].pc = "manip"
    /\ saves' = [saves EXCEPT ![s].pc = "upload",
                   ![s].ph = Append(@, NewPhoto(ExpenseStoragePath(Uid, saves[s].expenseId, now, token))),
                   ![s].calls = Append(@, "upload")]
    /\ UNCHANGED <<taskVars, mediaVars, moreVars, expRemote, expMedia, expStorage, nextExpId,
                   expenses, edels, eloads>>

SaveManipulateThrow(s) ==
    /\ saves[s].pc = "manip"
    /\ \E msg \in Messages : saves' = [saves EXCEPT ![s] = SaveCaught(@, msg)]
    /\ UNCHANGED <<taskVars, mediaVars, moreVars, expRemote, expMedia, expStorage, nextExpId,
                   expenses, edels, eloads>>

CurPath(s) == saves[s].ph[saves[s].k].storagePath

\* The storage service (bucket 'expense-media') stores the object.
ExpUploadOk(s) ==
    /\ saves[s].pc = "upload"
    /\ CurPath(s) \notin expStorage
    /\ expStorage' = expStorage \cup {CurPath(s)}
    /\ \E st \in OkStatuses :
         saves' = [saves EXCEPT ![s].pc = "uploaded", ![s].ph[saves[s].k].status = st]
    /\ UNCHANGED <<taskVars, mediaVars, moreVars, expRemote, expMedia, nextExpId, expenses, edels, eloads>>

ExpUploadFail(s) ==
    /\ saves[s].pc = "upload"
    /\ \E st \in (IF CurPath(s) \in expStorage THEN {DuplicateStatus} ELSE FailStatuses) :
         saves' = [saves EXCEPT ![s].pc = "uploaded", ![s].ph[saves[s].k].status = st]
    /\ UNCHANGED <<taskVars, mediaVars, moreVars, expRemote, expMedia, expStorage, nextExpId,
                   expenses, edels, eloads>>

\* FileSystem.uploadAsync rejects: status 0 stands for the throw.
ExpUploadThrow(s) ==
    /\ saves[s].pc = "upload"
    /\ saves' = [saves EXCEPT ![s].pc = "uploaded", ![s].ph[saves[s].k].status = 0]
    /\ UNCHANGED <<taskVars, mediaVars, moreVars, expRemote, expMedia, expStorage, nextExpId,
                   expenses, edels, eloads>>

\* resp.status !== 200 && resp.status !== 201
ExpUploadRefused(status) == status # 200 /\ status # 201

\* A handler that skips a photo whose upload failed and goes on.
ExpUploadReturnSkipping(s) ==
    /\ saves[s].pc = "uploaded"
    /\ LET st == saves[s].ph[saves[s].k].status IN
       saves' = [saves EXCEPT ![s] =
                   IF st = 0 \/ ExpUploadRefused(st)
                     THEN IF saves[s].k < saves[s].n THEN StartPhoto(@, saves[s].k + 1)
                          ELSE SaveSucceeded(@)
                   ELSE [@ EXCEPT !.pc = "insert", !.ph[saves[s].k].inserted = TRUE,
                                  !.calls = Append(@, "media.insert")]]
    /\ UNCHANGED <<taskVars, mediaVars, moreVars, expRemote, expMedia, expStorage, nextExpId,
                   expenses, edels, eloads>>

\* uploadAsync returns: a refused status throws an Error naming the status;
\* else the expense_media insert is issued.
ExpUploadReturn(s) ==
    /\ saves[s].pc = "uploaded"
    /\ LET st == saves[s].ph[saves[s].k].status IN
       saves' = [saves EXCEPT ![s] =
                   IF st = 0 THEN SaveCaught(@, "network error")
                   ELSE IF ExpUploadRefused(st) THEN SaveCaught(@, <<"HTTP", st>>)
                   ELSE [@ EXCEPT !.pc = "insert", !.ph[saves[s].k].inserted = TRUE,
                                  !.calls = Append(@, "media.insert")]]
    /\ UNCHANGED <<taskVars, mediaVars, moreVars, expRemote, expMedia, expStorage, nextExpId,
                   expenses, edels, eloads>>

\* The remote service inserts the expense_media row.
ExpMediaInsertOk(s) ==
    /\ saves[s].pc = "insert"
    /\ saves[s].expenseId \in expRemote
    /\ expMedia' = expMedia \cup
         {[expense_id |-> saves[s].expenseId, storage_path |-> CurPath(s)]}
    /\ saves' = [saves EXCEPT ![s].pc = "inserted"]
    /\ UNCHANGED <<taskVars, mediaVars, moreVars, expRemote, expStorage, nextExpId, expenses, edels, eloads>>

ExpMediaInsertFail(s) ==
    /\ saves[s].pc = "insert"
    /\ \E msg \in Messages :
         saves' = [saves EXCEPT ![s].pc = "inserted", ![s].ph[saves[s].k].dbErr = msg]
    /\ UNCHANGED <<taskVars, mediaVars, moreVars, expRemote, expMedia, expStorage, nextExpId,
                   expenses, edels, eloads>>

\* The insert returns: an error is thrown; else the next photo, or the end.
ExpMediaInsertReturn(s) ==
    /\ saves[s].pc = "inserted"
    /\ LET err == saves[s].ph[saves[s].k].dbErr IN
       saves' = [saves EXCEPT ![s] =
                   IF err # NoError THEN SaveCaught(@, err)
                   ELSE IF saves[s].k < saves[s].n THEN StartPhoto(@, saves[s].k + 1)
                   ELSE SaveSucceeded(@)]
    /\ UNCHANGED <<taskVars, mediaVars, moreVars, expRemote, expMedia, expStorage, nextExpId,
                   expenses, edels, eloads>>

SaveNext ==
    \/ \E s \in SaveIds, n \in 0..MaxPhotos, amountText \in AmountTexts : onSave(s, n, amountText)
    \/ \E s \in SaveIds, hasSession \in BOOLEAN : SaveAuthReturn(s, hasSession)
    \/ \E s \in SaveIds, answer \in {"row", "none"} \cup Messages : CompanyReturn(s, answer)
    \/ \E s \in SaveIds : ExpInsertOk(s)
    \/ \E s \in SaveIds : ExpInsertFail(s)
    \/ \E s \in SaveIds : ExpInsertReturn(s)
    \/ \E s \in SaveIds, token \in Tokens : SaveManipulateDone(s, token)
    \/ \E s \in SaveIds : SaveManipulateThrow(s)
    \/ \E s \in SaveIds : ExpUploadOk(s)
    \/ \E s \in SaveIds : ExpUploadFail(s)
    \/ \E s \in SaveIds : ExpUploadThrow(s)
    \/ \E s \in SaveIds : ExpUploadReturn(s)
    \/ \E s \in SaveIds : ExpMediaInsertOk(s)
    \/ \E s \in SaveIds : ExpMediaInsertFail(s)
    \/ \E s \in SaveIds : ExpMediaInsertReturn(s)
(* ----------------------------- loadExpenses ---------------------------- *)
\* The rows of expense_media embedded in the expense row `id`.
MediaOf(id) == {m.storage_path : m \in {r \in expMedia : r.expense_id = id}}

\* .order('spent_at', { ascending: false }): the expenses of the model are
\* spent in the order of their ids.
RECURSIVE ExpRowsDesc(_)
ExpRowsDesc(S) ==
    IF S = {} THEN <<>>
    ELSE LET m == CHOOSE x \in S : \A y \in S : y <= x
         IN <<[id |-> m, amount |-> expAmounts[m], media |-> MediaOf(m),
               signedUrl |-> NoUrl]>> \o ExpRowsDesc(S \ {m})

RECURSIVE FilterOutExpense(_, _)
FilterOutExpense(list, id) ==
    IF list = <<>> THEN <<>>
    ELSE IF Head(list).id = id THEN FilterOutExpense(Tail(list), id)
    ELSE <<Head(list)>> \o FilterOutExpense(Tail(list), id)

\* loadExpenses(): the select with the embedded media rows is awaited.
loadExpenses(l) ==
    /\ eloads[l].pc = "idle"
    /\ \A j \in ExpLoadIds : j < l => eloads[j].pc # "idle"
    /\ eloads' = [eloads EXCEPT ![l].pc = "select"]
    /\ UNCHANGED <<taskVars, mediaVars, moreVars, expRemote, expMedia, expStorage, nextExpId,
                   expenses, saves, edels>>

ExpSelectAnswerOk(l) ==
    /\ eloads[l].pc = "select"
    /\ eloads' = [eloads EXCEPT ![l].pc = "selected", ![l].rows = ExpRowsDesc(expRemote)]
    /\ UNCHANGED <<taskVars, mediaVars, moreVars, expRemote, expMedia, expStorage, nextExpId,
                   expenses, saves, edels>>

ExpSelectAnswerFail(l) ==
    /\ eloads[l].pc = "select"
    /\ \E msg \in Messages :
         eloads' = [eloads EXCEPT ![l].pc = "selected", ![l].error = msg]
    /\ UNCHANGED <<taskVars, mediaVars, moreVars, expRemote, expMedia, expStorage, nextExpId,
                   expenses, saves, edels>>

\* The select returns: on error a toast and return; else the rows are signed.
ExpSelectReturn(l) ==
    /\ eloads[l].pc = "selected"
    /\ eloads' = [eloads EXCEPT ![l] =
                    IF eloads[l].error # NoError
                      THEN [@ EXCEPT !.pc = "done",
                                     !.toasts = Append(@, Toast("error", "Hata", eloads[l].error))]
                      ELSE [@ EXCEPT !.pc = "sign"]]
    /\ UNCHANGED <<taskVars, mediaVars, moreVars, expRemote, expMedia, expStorage, nextExpId,
                   expenses, saves, edels>>

\* The signed URLs are back: setExpenses(rows).
\* (mediaArr[0]: the first embedded row is the first uploaded one.)
WithSignedUrls(rows, t) ==
    [i \in 1..Len(rows) |->
       IF rows[i].media = {} THEN rows[i]
       ELSE [rows[i] EXCEPT !.signedUrl =
               SignedUrl(CHOOSE p \in rows[i].media : \A q \in rows[i].media : p[3] <= q[3], t)]]

ExpSignDone(l) ==
    /\ eloads[l].pc = "sign"
    /\ expenses' = WithSignedUrls(eloads[l].rows, now)
    /\ eloads' = [eloads EXCEPT ![l].pc = "done", ![l].rows = expenses',
                    ![l].signedAt = IF \A i \in 1..Len(eloads[l].rows) : eloads[l].rows[i].media = {}
                                      THEN -1 ELSE now]
    /\ UNCHANGED <<taskVars, mediaVars, moreVars, expRemote, expMedia, expStorage, nextExpId,
                   saves, edels>>

\* createSignedUrl answers with an error: `data` is null, signedUrl stays null.
ExpSignFail(l) ==
    /\ eloads[l].pc = "sign"
    /\ \E i \in 1..Len(eloads[l].rows) : eloads[l].rows[i].media # {}
    /\ expenses' = eloads[l].rows
    /\ \E msg \in Messages :
         eloads' = [eloads EXCEPT ![l].pc = "done", ![l].signedAt = now, ![l].signErr = msg]
    /\ UNCHANGED <<taskVars, mediaVars, moreVars, expRemote, expMedia, expStorage, nextExpId,
                   saves, edels>>

(* ----------------------------- deleteExpense --------------------------- *)
\* catch: the error toast with e.message.
ExpDelCaught(ed, msg) ==
    [ed EXCEPT !.pc = "done", !.toasts = Append(@, Toast("error", "Hata", msg))]

\* deleteExpense(row) for the i-th row of the rendered list; the haptic is awaited.
deleteExpense(e, i) ==
    /\ i <= Len(expenses)
    /\ edels[e].pc = "idle"
    /\ \A j \in ExpDelIds : j < e => edels[j].pc # "idle"
    /\ edels' = [edels EXCEPT ![e].pc = "haptic", ![e].row = expenses[i]]
    /\ UNCHANGED <<taskVars, mediaVars, moreVars, expRemote, expMedia, expStorage, nextExpId,
                   expenses, saves, eloads>>

\* After the haptic: the expense_media paths of the expense are selected.
ExpDelQuery(e) ==
    /\ edels[e].pc = "haptic"
    /\ edels' = [edels EXCEPT ![e].pc = "query", ![e].calls = Append(@, <<"media.select">>)]
    /\ UNCHANGED <<taskVars, mediaVars, moreVars, expRemote, expMedia, expStorage, nextExpId,
                   expenses, saves, eloads>>

ExpDelQueryOk(e) ==
    /\ edels[e].pc = "query"
    /\ edels' = [edels EXCEPT ![e].pc = "queried", ![e].paths = MediaOf(edels[e].row.id)]
    /\ UNCHANGED <<taskVars, mediaVars, moreVars, expRemote, expMedia, expStorage, nextExpId,
                   expenses, saves, eloads>>

ExpDelQueryFail(e) ==
    /\ edels[e].pc = "query"
    /\ \E msg \in Messages :
         edels' = [edels EXCEPT ![e].pc = "queried", ![e].mErr = msg]
    /\ UNCHANGED <<taskVars, mediaVars, moreVars, expRemote, expMedia, expStorage, nextExpId,
                   expenses, saves, eloads>>

\* if (mErr) throw mErr
QueryFailed(e) == edels[e].mErr # NoError

\* The expense delete is issued.
IssueExpenseDelete(ed) ==
    [ed EXCEPT !.pc = "edelete", !.calls = Append(@, <<"expense.delete">>)]

\* The select returns: an error is thrown; with paths their storage removal is
\* issued; without any the expense delete is issued.
ExpDelQueryReturn(e) ==
    /\ edels[e].pc = "queried"
    /\ edels' = [edels EXCEPT ![e] =
                   IF QueryFailed(e) THEN ExpDelCaught(@, edels[e].mErr)
                   ELSE IF edels[e].paths # {}
                     THEN [@ EXCEPT !.pc = "sremove",
                                    !.calls = Append(@, <<"storage.remove", edels[e].paths>>)]
                   ELSE IssueExpenseDelete(@)]
    /\ UNCHANGED <<taskVars, mediaVars, moreVars, expRemote, expMedia, expStorage, nextExpId,
                   expenses, saves, eloads>>

\* The storage service removes the objects.
ExpStorageRemoveOk(e) ==
    /\ edels[e].pc = "sremove"
    /\ expStorage' = expStorage \ edels[e].paths
    /\ edels' = [edels EXCEPT ![e].pc = "sremoved", ![e].removedOk = TRUE]
    /\ UNCHANGED <<taskVars, mediaVars, moreVars, expRemote, expMedia, nextExpId, expenses, saves, eloads>>

ExpStorageRemoveFail(e) ==
    /\ edels[e].pc = "sremove"
    /\ \E msg \in Messages :
         edels' = [edels EXCEPT ![e].pc = "sremoved", ![e].sErr = msg]
    /\ UNCHANGED <<taskVars, mediaVars, moreVars, expRemote, expMedia, expStorage, nextExpId,
                   expenses, saves, eloads>>

\* A handler that does not look at the answer of storage.remove.
ExpStorageRemoveIgnored(e) == FALSE

\* if (sErr) throw sErr
ExpStorageRemoveFailed(e) == edels[e].sErr # NoError

\* storage.remove returns: an error is thrown; else the expense delete is issued.
ExpStorageRemoveReturn(e) ==
    /\ edels[e].pc = "sremoved"
    /\ edels' = [edels EXCEPT ![e] =
                   IF ExpStorageRemoveFailed(e) THEN ExpDelCaught(@, edels[e].sErr)
                   ELSE IssueExpenseDelete(@)]
    /\ UNCHANGED <<taskVars, mediaVars, moreVars, expRemote, expMedia, expStorage, nextExpId,
                   expenses, saves, eloads>>

\* The remote service deletes the expense row, and its expense_media rows with it.
ExpDeleteOk(e) ==
    /\ edels[e].pc = "edelete"
    /\ expRemote' = expRemote \ {edels[e].row.id}
    /\ expMedia' = {r \in expMedia : r.expense_id # edels[e].row.id}
    /\ edels' = [edels EXCEPT ![e].pc = "edeleted"]
    /\ UNCHANGED <<taskVars, mediaVars, moreVars, expStorage, nextExpId, expenses, saves, eloads>>

ExpDeleteFail(e) ==
    /\ edels[e].pc = "edelete"
    /\ \E msg \in Messages :
         edels' = [edels EXCEPT ![e].pc = "edeleted", ![e].dErr = msg]
    /\ UNCHANGED <<taskVars, mediaVars, moreVars, expRemote, expMedia, expStorage, nextExpId,
                   expenses, saves, eloads>>

\* A handler that takes the row out of the list whatever the delete answered.
ExpDeleteReturnUnlisting(e) ==
    /\ edels[e].pc = "edeleted"
    /\ expenses' = FilterOutExpense(expenses, edels[e].row.id)
    /\ edels' = [edels EXCEPT ![e] =
                   IF edels[e].dErr # NoError THEN ExpDelCaught(@, edels[e].dErr)
                   ELSE [@ EXCEPT !.pc = "done",
                           !.toasts = Append(@, Toast("success", "Silindi", "Harcama kaldirildi."))]]
    /\ UNCHANGED <<taskVars, mediaVars, moreVars, expRemote, expMedia, expStorage, nextExpId,
                   saves, eloads>>

\* The delete returns: an error is thrown; else the row leaves the list and the
\* success toast is shown.
ExpDeleteReturn(e) ==
    /\ edels[e].pc = "edeleted"
    /\ IF edels[e].dErr # NoError
         THEN /\ edels' = [edels EXCEPT ![e] = ExpDelCaught(@, edels[e].dErr)]
              /\ UNCHANGED expenses
         ELSE /\ expenses' = FilterOutExpense(expenses, edels[e].row.id)
              /\ edels' = [edels EXCEPT ![e].pc = "done",
                             ![e].toasts = Append(@, Toast("success", "Silindi", "Harcama kaldirildi."))]
    /\ UNCHANGED <<taskVars, mediaVars, moreVars, expRemote, expMedia, expStorage, nextExpId,
                   saves, eloads>>

ExpenseNext ==
    \/ SaveNext
    \/ Tick
    \/ \E l \in ExpLoadIds : loadExpenses(l)
    \/ \E l \in ExpLoadIds : ExpSelectAnswerOk(l)
    \/ \E l \in ExpLoadIds : ExpSelectAnswerFail(l)
    \/ \E l \in ExpLoadIds : ExpSelectReturn(l)
    \/ \E l \in ExpLoadIds : ExpSignDone(l)
    \/ \E l \in ExpLoadIds : ExpSignFail(l)
    \/ \E e \in ExpDelIds, i \in 1..MaxSaves : deleteExpense(e, i)
    \/ \E e \in ExpDelIds : ExpDelQuery(e)
    \/ \E e \in ExpDelIds : ExpDelQueryOk(e)
    \/ \E e \in ExpDelIds : ExpDelQueryFail(e)
    \/ \E e \in ExpDelIds : ExpDelQueryReturn(e)
    \/ \E e \in ExpDelIds : ExpStorageRemoveOk(e)
    \/ \E e \in ExpDelIds : ExpStorageRemoveFail(e)
    \/ \E e \in ExpDelIds : ExpStorageRemoveReturn(e)
    \/ \E e \in ExpDelIds : ExpDeleteOk(e)
    \/ \E e \in ExpDelIds : ExpDeleteFail(e)
    \/ \E e \in ExpDelIds : ExpDeleteReturn(e)

\* Uploads and loads of the attachment list while time passes.
SignedNext ==
    \/ Tick
    \/ Elapse
    \/ \E i \in LoadIds : loadMedia(i)
    \/ \E w \in Owners : SelectAnswerOk(w)
    \/ \E w \in Owners : SelectAnswerFail(w)
    \/ \E w \in Owners : SelectReturn(w)
    \/ \E w \in Owners : MakeSignedDone(w)
    \/ \E w \in Owners : MakeSignedFail(w)
    \/ \E u \in UpIds : processAndUpload(u)
    \/ \E u \in UpIds : ManipulateDone(u)
    \/ \E u \in UpIds : ManipulateThrow(u)
    \/ \E u \in UpIds, hasSession \in BOOLEAN : AuthReturn(u, hasSession)
    \/ \E u \in UpIds : StorageUploadOk(u)
    \/ \E u \in UpIds : StorageUploadFail(u)
    \/ \E u \in UpIds : StorageUploadThrow(u)
    \/ \E u \in UpIds : UploadReturn(u)
    \/ \E u \in UpIds : DbInsertOk(u)
    \/ \E u \in UpIds : DbInsertFail(u)
    \/ \E u \in UpIds : InsertReturn(u)

\* Both upload paths: processAndUpload with the reload that ends it, and onSave.
UploadNext ==
    \/ SaveNext
    \/ Tick
    \/ \E u \in UpIds : processAndUpload(u)
    \/ \E u \in UpIds : ManipulateDone(u)
    \/ \E u \in UpIds : ManipulateThrow(u)
    \/ \E u \in UpIds, hasSession \in BOOLEAN : AuthReturn(u, hasSession)
    \/ \E u \in UpIds : StorageUploadOk(u)
    \/ \E u \in UpIds : StorageUploadFail(u)
    \/ \E u \in UpIds : StorageUploadThrow(u)
    \/ \E u \in UpIds : UploadReturn(u)
    \/ \E u \in UpIds : DbInsertOk(u)
    \/ \E u \in UpIds : DbInsertFail(u)
    \/ \E u \in UpIds : InsertReturn(u)
    \/ \E w \in Owners : SelectAnswerOk(w)
    \/ \E w \in Owners : SelectAnswerFail(w)
    \/ \E w \in Owners : SelectReturn(w)
    \/ \E w \in Owners : MakeSignedDone(w)

(* ---------------------------- saveEditExpense -------------------------- *)
EditIds == 1..MaxEdits

\* Amount texts typed in the edit dialog.
EditTexts == { <<"3">>, <<"0">>, <<"-", "5">>, <<>>, <<"a", "b", "c">> }

IdleEdit ==
    [pc |-> "idle", id |-> 0, amountText |-> <<>>, amount |-> 0, error |-> NoError,
     calls |-> <<>>, toasts |-> <<>>]

\* if (!Number.isFinite(amt)) throw
EditAmountRefused(amt) == amt.nan

\* saveEditExpense() with the dialog opened on the i-th row of the list and
\* amountText typed: a non-finite amount throws (toast); else the update of
\* the remote row is issued.
saveEditExpense(e, i, amountText) ==
    /\ i <= Len(expenses)
    /\ edits[e].pc = "idle"
    /\ LET amt == Number(ReplaceComma(amountText)) IN
       edits' = [edits EXCEPT ![e] =
                   IF EditAmountRefused(amt)
                     THEN [@ EXCEPT !.pc = "done", !.id = expenses[i].id,
                                    !.amountText = amountText,
                                    !.toasts = Append(@, Toast("error", "Hata", "Tutar hatali."))]
                     ELSE [@ EXCEPT !.pc = "update", !.id = expenses[i].id,
                                    !.amountText = amountText,
                                    !.amount = RoundedAmount(amt),
                                    !.calls = Append(@, "expense.update")]]
    /\ UNCHANGED <<taskVars, mediaVars, expVars, mounted, data, remoteTasks, creates,
                   expAmounts, resized, tab, lists>>

\* The remote service updates the row and answers with it.
EditUpdateOk(e) ==
    /\ edits[e].pc = "update"
    /\ edits[e].id \in expRemote
    /\ expAmounts' = [expAmounts EXCEPT ![edits[e].id] = edits[e].amount]
    /\ edits' = [edits EXCEPT ![e].pc = "updated"]
    /\ UNCHANGED <<taskVars, mediaVars, expVars, mounted, data, remoteTasks, creates, resized, tab, lists>>

EditUpdateFail(e) ==
    /\ edits[e].pc = "update"
    /\ \E msg \in Messages : edits' = [edits EXCEPT ![e].pc = "updated", ![e].error = msg]
    /\ UNCHANGED <<taskVars, mediaVars, expVars, mounted, data, remoteTasks, creates,
                   expAmounts, resized, tab, lists>>

\* The update returns: an error is thrown (toast); else the row of the list
\* takes the returned amount and the success toast is shown.
EditReturn(e) ==
    /\ edits[e].pc = "updated"
    /\ IF edits[e].error # NoError
         THEN /\ edits' = [edits EXCEPT ![e].pc = "done",
                             ![e].toasts = Append(@, Toast("error", "Hata", edits[e].error))]
              /\ UNCHANGED expenses
         ELSE /\ expenses' = [i \in 1..Len(expenses) |->
                                IF expenses[i].id = edits[e].id
                                  THEN [expenses[i] EXCEPT !.amount = edits[e].amount]
                                  ELSE expenses[i]]
              /\ edits' = [edits EXCEPT ![e].pc = "done",
                             ![e].toasts = Append(@, Toast("success", "Kaydedildi", "Harcama guncellendi."))]
    /\ UNCHANGED <<taskVars, mediaVars, expRemote, expMedia, expStorage, nextExpId, saves,
                   edels, eloads, mounted, data, remoteTasks, creates, expAmounts, resized, tab, lists>>

\* Adding, loading and editing expenses.
EditNext ==
    \/ SaveNext
    \/ \E l \in ExpLoadIds : loadExpenses(l)
    \/ \E l \in ExpLoadIds : ExpSelectAnswerOk(l)
    \/ \E l \in ExpLoadIds : ExpSelectAnswerFail(l)
    \/ \E l \in ExpLoadIds : ExpSelectReturn(l)
    \/ \E l \in ExpLoadIds : ExpSignDone(l)
    \/ \E l \in ExpLoadIds : ExpSignFail(l)
    \/ \E e \in EditIds, i \in 1..MaxSaves, amountText \in EditTexts : saveEditExpense(e, i, amountText)
    \/ \E e \in EditIds : EditUpdateOk(e)
    \/ \E e \in EditIds : EditUpdateFail(e)
    \/ \E e \in EditIds : EditReturn(e)

(* ------------------------- TasksScreen.createTask ---------------------- *)
CreateIds == 1..MaxCreates

\* Titles typed in the new-task form.
TitleTexts == { <<>>, <<" ">>, <<"B">>, <<" ", "B">> }

IdleCreate ==
    [pc |-> "idle", tempId |-> 0, title |-> <<>>, error |-> NoError, inserted |-> 0,
     removed |-> 0, late |-> FALSE, calls |-> <<>>, toasts |-> <<>>]

\* const tempId = -Date.now()
TempId(t) == 0 - t

\* createTask() with the title typed: an empty title gives a toast and return;
\* else the optimistic row goes in front of the list and the insert is issued.
createTask(c, titleText) ==
    /\ creates[c].pc = "idle"
    /\ mounted["tasks"]
    /\ \A b \in CreateIds : b < c => creates[b].pc # "idle"
    /\ IF Trim(titleText) = <<>>
         THEN /\ creates' = [creates EXCEPT ![c].pc = "done", ![c].title = titleText,
                               ![c].toasts = Append(@, Toast("error", "Uyari", "Baslik gerekli."))]
              /\ UNCHANGED data
         ELSE /\ creates' = [creates EXCEPT ![c].pc = "insert", ![c].tempId = TempId(now),
                               ![c].title = titleText, ![c].calls = Append(@, "task.insert")]
              /\ data' = <<[id |-> TempId(now), title |-> Trim(titleText), status |-> "yapilacak"]>> \o data
    /\ UNCHANGED <<taskVars, mediaVars, expVars, mounted, remoteTasks, edits, expAmounts, resized, tab, lists>>

\* The remote service inserts the task and answers with the row.
TaskInsertOk(c) ==
    /\ creates[c].pc = "insert"
    /\ LET id == Cardinality(remoteTasks) + 1 IN
       /\ remoteTasks' = remoteTasks \cup
            {[id |-> id, title |-> Trim(creates[c].title), status |-> "yapilacak"]}
       /\ creates' = [creates EXCEPT ![c].pc = "inserted", ![c].inserted = id]
    /\ UNCHANGED <<taskVars, mediaVars, expVars, mounted, data, edits, expAmounts, resized, tab, lists>>

TaskInsertFail(c) ==
    /\ creates[c].pc = "insert"
    /\ \E msg \in Messages : creates' = [creates EXCEPT ![c].pc = "inserted", ![c].error = msg]
    /\ UNCHANGED <<taskVars, mediaVars, expVars, mounted, data, remoteTasks, edits,
                   expAmounts, resized, tab, lists>>

\* The insert returns.  On error the rows with the temporary id are filtered
\* out, and a toast; else the returned row goes in front of the list filtered
\* the same way, and the success toast.  (removed: how many rows the filter
\* dropped; late: the screen was unmounted, so setData had no effect.)
CreateReturn(c) ==
    /\ creates[c].pc = "inserted"
    /\ LET kept == FilterOut(data, creates[c].tempId)
           failed == creates[c].error # NoError
       IN  /\ data' = IF ~mounted["tasks"] THEN data
                      ELSE IF failed THEN kept
                      ELSE <<[id |-> creates[c].inserted, title |-> Trim(creates[c].title),
                              status |-> "yapilacak"]>> \o kept
           /\ creates' = [creates EXCEPT ![c].pc = "done",
                            ![c].removed = Len(data) - Len(kept),
                            ![c].late = ~mounted["tasks"],
                            ![c].toasts = Append(@,
                               IF failed THEN Toast("error", "Hata", creates[c].error)
                               ELSE Toast("success", "Basarili", "Gorev eklendi."))]
    /\ UNCHANGED <<taskVars, mediaVars, expVars, mounted, remoteTasks, edits, expAmounts, resized, tab, lists>>

\* The task list screen: creates while the clock runs and the screen may close.
TasksNext ==
    \/ Tick
    \/ \E screen \in {"tasks"} : Unmount(screen)
    \/ \E c \in CreateIds, titleText \in TitleTexts : createTask(c, titleText)
    \/ \E c \in CreateIds : TaskInsertOk(c)
    \/ \E c \in CreateIds : TaskInsertFail(c)
    \/ \E c \in CreateIds : CreateReturn(c)

(* ------------------------- TasksScreen.load ---------------------------- *)
ListIds == 1..MaxListLoads

\* The tabs of the status row: 'tumu' and the statuses.
Tabs == {"tumu"} \cup STATUS_OPTIONS

\* A load() run: the tab its closure holds, and the answer of its select.
IdleList == [pc |-> "idle", tab |-> "yapilacak", rows |-> <<>>, error |-> NoError]

\* if (tab !== 'tumu') query = query.eq('status', tab)
TabFilter(rows, t) == {r \in rows : t = "tumu" \/ r.status = t}

\* load() starts with the tab of the current render: the select is issued.
load(l, t) ==
    /\ lists[l].pc = "idle"
    /\ \A k \in ListIds : k < l => lists[k].pc # "idle"
    /\ mounted["tasks"]
    /\ tab' = t
    /\ lists' = [lists EXCEPT ![l].pc = "select", ![l].tab = t]
    /\ UNCHANGED <<taskVars, mediaVars, expVars, mounted, data, remoteTasks, creates, edits,
                   expAmounts, resized>>

\* Pull to refresh (and the mount effect): load() for the selected tab.
refresh(l) == load(l, tab)

\* A tab chip is pressed: setTab(t); the effect runs the new load().
setTab(l, t) == t # tab /\ load(l, t)

\* The remote service answers the select: the project's tasks of that status,
\* newest first.
ListSelectOk(l) ==
    /\ lists[l].pc = "select"
    /\ lists' = [lists EXCEPT ![l].pc = "selected",
                              ![l].rows = RowsDesc(TabFilter(remoteTasks, lists[l].tab))]
    /\ UNCHANGED <<taskVars, mediaVars, expVars, mounted, data, remoteTasks, creates, edits,
                   expAmounts, resized, tab>>

ListSelectFail(l) ==
    /\ lists[l].pc = "select"
    /\ \E msg \in Messages : lists' = [lists EXCEPT ![l].pc = "selected", ![l].error = msg]
    /\ UNCHANGED <<taskVars, mediaVars, expVars, mounted, data, remoteTasks, creates, edits,
                   expAmounts, resized, tab>>

\* The select returns: setData(data ?? []), whatever tab is selected by now.
ListReturn(l) ==
    /\ lists[l].pc = "selected"
    /\ data' = IF mounted["tasks"] THEN lists[l].rows ELSE data
    /\ lists' = [lists EXCEPT ![l].pc = "done"]
    /\ UNCHANGED <<taskVars, mediaVars, expVars, mounted, remoteTasks, creates, edits,
                   expAmounts, resized, tab>>

\* The task list screen with its loads: tab changes, refreshes and creates.
ListNext ==
    \/ Tick
    \/ \E l \in ListIds : refresh(l)
    \/ \E l \in ListIds, t \in Tabs : setTab(l, t)
    \/ \E l \in ListIds : ListSelectOk(l)
    \/ \E l \in ListIds : ListSelectFail(l)
    \/ \E l \in ListIds : ListReturn(l)
    \/ \E c \in CreateIds, titleText \in TitleTexts : createTask(c, titleText)
    \/ \E c \in CreateIds : TaskInsertOk(c)
    \/ \E c \in CreateIds : TaskInsertFail(c)
    \/ \E c \in CreateIds : CreateReturn(c)

(* --------------------------- image manipulation ------------------------ *)
\* Widths and heights of source images.
Dims == {600, 800, 1200, 1600, 1800, 2000, 3000, 4000}

\* The width handed to the resize action when none is reported.
DefaultWidth == 1600

\* Math.min(w ?? 1600, 1600)
ResizeWidth(w, reported) ==
    LET v == IF reported THEN w ELSE DefaultWidth IN IF v < 1600 THEN v ELSE 1600

\* manipulateAsync(uri, [{ resize: { width } }], { compress: 0.8, format: JPEG })
\* on a source of w x h pixels whose width the picker reported or not: a new
\* file of the requested width, the height scaled with it; the source is kept.
manipulateAsync(w, h, reported) ==
    /\ resized' = [source |-> [uri |-> "picked", w |-> w, h |-> h], reported |-> reported,
                   result |-> [uri |-> "manipulated", w |-> ResizeWidth(w, reported),
                               h |-> (h * ResizeWidth(w, reported)) \div w]]
    /\ UNCHANGED <<taskVars, mediaVars, expVars, mounted, data, remoteTasks, creates,
                   edits, expAmounts, tab, lists>>

ResizeNext == \E w \in Dims, h \in Dims, reported \in BOOLEAN : manipulateAsync(w, h, reported)

MoreInit ==
    /\ mounted = [screen \in {"detail", "tasks"} |-> TRUE]
    /\ data = <<>>
    /\ remoteTasks = {}
    /\ creates = [c \in CreateIds |-> IdleCreate]
    /\ edits = [e \in EditIds |-> IdleEdit]
    /\ expAmounts = <<>>
    /\ resized = <<>>
    /\ tab = "yapilacak"
    /\ lists = [l \in ListIds |-> IdleList]

\* setStatus / updatePriority while the screen may be unmounted.
UnmountNext ==
    \/ TaskNext
    \/ \E screen \in {"detail"} : Unmount(screen)

Init == TaskInit /\ MediaInit /\ ExpenseInit /\ MoreInit

SpecTask == Init /\ [][TaskNext]_vars

SpecMedia == Init /\ [][MediaNext]_vars
SpecExpense == Init /\ [][ExpenseNext]_vars
SpecUpload == Init /\ [][UploadNext]_vars
SpecSigned == Init /\ [][SignedNext]_vars
SpecUnmount == Init /\ [][UnmountNext]_vars
SpecEdit == Init /\ [][EditNext]_vars
SpecTasks == Init /\ [][TasksNext]_vars
SpecResize == Init /\ [][ResizeNext]_vars
SpecList == Init /\ [][ListNext]_vars

(* --------------- one run of every writing handler, together ------------ *)
\* setStatus while no other mutation of the task was submitted.
FirstSetStatus(next) == nOps = 0 /\ setStatus(next)

\* One status change, one photo upload, one photo delete and one createTask,
\* interleaved in every way.
WritesNext ==
    \/ \E s \in STATUS_OPTIONS : FirstSetStatus(s)
    \/ \E o \in OpIds : ApplyOptimistic(o)
    \/ \E o \in OpIds : RemoteUpdateOk(o)
    \/ \E o \in OpIds : RemoteUpdateFail(o)
    \/ \E o \in OpIds : Reconcile(o)
    \/ \E w \in Owners : SelectAnswerOk(w)
    \/ \E w \in Owners : SelectAnswerFail(w)
    \/ \E w \in Owners : SelectReturn(w)
    \/ \E w \in Owners : MakeSignedDone(w)
    \/ processAndUpload(1)
    \/ ManipulateDone(1)
    \/ ManipulateThrow(1)
    \/ \E hasSession \in BOOLEAN : AuthReturn(1, hasSession)
    \/ StorageUploadOk(1)
    \/ StorageUploadFail(1)
    \/ StorageUploadThrow(1)
    \/ UploadReturn(1)
    \/ DbInsertOk(1)
    \/ DbInsertFail(1)
    \/ InsertReturn(1)
    \/ \E d \in DelIds, i \in 1..MaxUploads : deleteMedia(d, i)
    \/ \E d \in DelIds : DeleteOptimistic(d)
    \/ \E d \in DelIds : StorageRemoveOk(d)
    \/ \E d \in DelIds : StorageRemoveFail(d)
    \/ \E d \in DelIds : StorageRemoveReturn(d)
    \/ \E d \in DelIds : DbDeleteOk(d)
    \/ \E d \in DelIds : DbDeleteFail(d)
    \/ \E d \in DelIds : RecordDeleteReturn(d)
    \/ \E titleText \in TitleTexts : createTask(1, titleText)
    \/ TaskInsertOk(1)
    \/ TaskInsertFail(1)
    \/ CreateReturn(1)

SpecWrites == Init /\ [][WritesNext]_vars

(* ------------------------- claims: task mutations ---------------------- *)
Failed(o) == ops[o].pc = "done" /\ ops[o].error # NoError

\* C1: a mutation whose remote update failed leaves, after reconciliation, the
\* in-memory task equal to the task as it was immediately before that
\* mutation's optimistic change was applied.
C1_RollbackIsExact ==
    \A o \in OpIds : Failed(o) => ops[o].after = ops[o].before

InFlight(o) == ops[o].pc \in {"sent", "replied"}

\* C2: a later mutation's remote update is issued only after every earlier
\* mutation on the task has been reconciled; two remote updates of the task
\* are never in flight together.
C2_SerializedPerTask ==
    /\ \A o1, o2 \in OpIds : (o1 < o2 /\ InFlight(o2)) => ops[o1].pc = "done"
    /\ Cardinality({o \in OpIds : InFlight(o)}) <= 1

AllTerminal == \A o \in OpIds : ops[o].pc \in {"idle", "done"}

\* C4: once every submitted mutation is terminal, the in-memory task equals
\* the row the remote service holds.
C4_ConvergesToRemote ==
    (nOps > 0 /\ AllTerminal) => task = remoteTask

(* --------------------------- claims: task media ------------------------ *)
RecordPaths == {r.storage_path : r \in records}

HasRecord(id) == \E r \in records : r.id = id

\* No upload, deletion or load step is in progress.
MediaQuiescent ==
    /\ \A u \in UpIds : ups[u].pc \in {"idle", "done"}
    /\ \A d \in DelIds : dels[d].pc \in {"idle", "done"}
    /\ \A w \in Owners : loads[w].pc \in {"idle", "done"}

\* C3 (its closing sentence, which the equivalence implies): in every state
\* where no upload or deletion step is in progress, no attachment record
\* references a storage object that does not exist.
C3_NoRecordWithoutObject ==
    MediaQuiescent => RecordPaths \subseteq storage

\* The storage path recorded at upload for the attachment with this id.
UploadedAs(id, path) ==
    \E u \in UpIds : ups[u].rowId = id /\ ups[u].storagePath = path

\* C6: a deletion first takes the row out of the in-memory list, then calls
\* storage delete with exactly the path recorded at upload, then issues the
\* record delete, and the record delete only after the storage delete succeeded.
C6_DeleteOrder ==
    \A d \in DelIds :
      LET c == dels[d].calls
          id == dels[d].row.id
      IN  /\ dels[d].pc \in {"idle", "haptic"} <=> c = <<>>
          /\ Len(c) # 1
          /\ Len(c) >= 2 =>
               /\ c[1] = <<"unlist", id>>
               /\ dels[d].unlisted
               /\ c[2][1] = "storage.remove"
               /\ UploadedAs(id, c[2][2])
          /\ Len(c) >= 3 =>
               /\ c[3] = <<"record.delete", id>>
               /\ dels[d].sErr = NoError
               /\ dels[d].pc \notin {"sremove", "sremoved"}
          /\ \A i \in 1..Len(c) :
               /\ c[i][1] = "storage.remove" => i = 2
               /\ c[i][1] = "record.delete" => i = 3

\* C6 witness: a deletion went through all three steps.
C6_Witness ==
    \E d \in DelIds :
      /\ dels[d].pc = "done" /\ dels[d].sErr = NoError /\ dels[d].dErr = NoError
      /\ Len(dels[d].calls) = 3
      /\ ~HasRecord(dels[d].row.id)

\* C7: the step that handles a failed storage delete puts the attachment back
\* in the in-memory list, shows one error toast with the failure's message,
\* issues no record delete and leaves the attachment records unchanged.
C7_StorageDeleteFailure ==
    [][\A d \in DelIds :
         (dels[d].pc = "sremoved" /\ dels[d].sErr # NoError /\ dels'[d] # dels[d]) =>
            /\ dels'[d].pc = "done"
            /\ InList(media', dels[d].row.id)
            /\ dels'[d].toasts =
                 Append(dels[d].toasts, Toast("error", "Silme hatasi", dels[d].sErr))
            /\ dels'[d].calls = dels[d].calls
            /\ records' = records
            /\ storage' = storage]_vars

\* C7 witness: a deletion ended on a failed storage delete.
C7_Witness ==
    \E d \in DelIds :
      /\ dels[d].pc = "done" /\ dels[d].sErr # NoError
      /\ dels[d].restored
      /\ HasRecord(dels[d].row.id)

\* Another deletion of the same attachment removed its record.
DeletedByOther(d) ==
    \E e \in DelIds :
      /\ e # d
      /\ dels[e].row.id = dels[d].row.id
      /\ dels[e].pc \in {"rdeleted", "done"}
      /\ dels[e].sErr = NoError /\ dels[e].dErr = NoError

RecordDeleteFailed(d) ==
    dels[d].pc \in {"loading", "done"} /\ dels[d].sErr = NoError /\ dels[d].dErr # NoError

C9_OrphanRecordRemoved ==
    \A d \in DelIds :
      (MediaQuiescent /\ RecordDeleteFailed(d) /\ ~DeletedByOther(d))
        => ~HasRecord(dels[d].row.id)

(* ---------------------------- claims: uploads -------------------------- *)
Called(calls, c) == \E i \in 1..Len(calls) : calls[i] = c

LastToast(toasts) == toasts[Len(toasts)]

\* The upload answered with a status, and the status is not 200 / 201.
NonSuccess(status) == status # 0 /\ status \notin OkStatuses

\* C5: in processAndUpload and in onSave the record insert of a path is issued
\* only after the upload of that path answered 200 / 201; an upload answered
\* with another status ends the run with an error toast that names the status
\* and without an insert for the path; every record in either table has the
\* path of an upload that succeeded.
C5_InsertOnlyAfterUpload ==
    /\ \A u \in UpIds :
         /\ Called(ups[u].calls, "insert") =>
              (ups[u].status \in OkStatuses /\ Called(ups[u].calls, "upload"))
         /\ NonSuccess(ups[u].status) => ~Called(ups[u].calls, "insert")
         /\ (NonSuccess(ups[u].status) /\ ups[u].pc = "done") =>
              ups[u].toasts = <<Toast("error", "Yukleme hatasi", <<"Durum", ups[u].status>>)>>
    /\ \A r \in records :
         \E u \in UpIds : /\ ups[u].storagePath = r.storage_path
                          /\ ups[u].status \in OkStatuses
    /\ \A s \in SaveIds : \A k \in 1..Len(saves[s].ph) :
         LET p == saves[s].ph[k] IN
         /\ p.inserted => p.status \in OkStatuses
         /\ NonSuccess(p.status) => ~p.inserted
         /\ (NonSuccess(p.status) /\ saves[s].pc = "done") =>
              LastToast(saves[s].toasts) = Toast("error", "Hata", <<"HTTP", p.status>>)
    /\ \A m \in expMedia :
         \E s \in SaveIds : \E k \in 1..Len(saves[s].ph) :
           /\ saves[s].expenseId = m.expense_id
           /\ saves[s].ph[k].storagePath = m.storage_path
           /\ saves[s].ph[k].status \in OkStatuses

\* C5 witness: a task photo was uploaded and recorded, another was refused, and
\* an onSave run recorded its first photo and had its second one refused.
C5_Witness ==
    /\ \E u \in UpIds : ups[u].pc = "done" /\ ups[u].rowId \in {r.id : r \in records}
    /\ \E u \in UpIds : ups[u].pc = "done" /\ NonSuccess(ups[u].status)
    /\ \E s \in SaveIds :
         /\ saves[s].pc = "done" /\ Len(saves[s].ph) = 2
         /\ saves[s].ph[1].inserted
         /\ NonSuccess(saves[s].ph[2].status)
         /\ expMedia # {}

(* ------------------------ claims: expense deletion --------------------- *)
\* C10: deleteExpense issues the expense delete only after the select of the
\* expense's attachment paths succeeded and, when there are paths, after the
\* storage removal of exactly those paths was issued and reported success;
\* when the select or the storage removal fails no expense delete is issued.
C10_DeleteAfterStorageRemoval ==
    \A e \in ExpDelIds :
      LET c == edels[e].calls IN
      /\ Called(c, <<"expense.delete">>) =>
           /\ edels[e].mErr = NoError
           /\ edels[e].sErr = NoError
           /\ edels[e].pc \in {"edelete", "edeleted", "done"}
           /\ edels[e].paths = {} => c = <<<<"media.select">>, <<"expense.delete">>>>
           /\ edels[e].paths # {} =>
                /\ c = <<<<"media.select">>, <<"storage.remove", edels[e].paths>>,
                         <<"expense.delete">>>>
                /\ edels[e].removedOk
      /\ (edels[e].mErr # NoError \/ edels[e].sErr # NoError) =>
           ~Called(c, <<"expense.delete">>)

\* C10 witness: an expense with attachments was deleted after their removal.
C10_Witness ==
    \E e \in ExpDelIds :
      /\ edels[e].pc = "done" /\ edels[e].dErr = NoError
      /\ edels[e].paths # {} /\ edels[e].removedOk
      /\ Called(edels[e].calls, <<"expense.delete">>)
      /\ edels[e].row.id \notin expRemote

(* --------------------------- claims: signed URLs ----------------------- *)
\* The loadMedia run called the sign operation for the attachment `id`.
SignedBy(w, id) == loads[w].signedAt >= 0 /\ InList(loads[w].rows, id)

\* C11: the sign operation is not called twice for the same attachment within
\* the 3600-unit validity of its URL, also not by two loads of the media list.
C11_SignedOncePerWindow ==
    \A w1, w2 \in Owners : \A r \in records :
      (w1 # w2 /\ SignedBy(w1, r.id) /\ SignedBy(w2, r.id))
        => \/ loads[w1].signedAt - loads[w2].signedAt >= SignedUrlTtl
           \/ loads[w2].signedAt - loads[w1].signedAt >= SignedUrlTtl

\* C12: no row of the rendered attachment list carries a signed URL that has
\* reached its expiry instant.
C12_NoExpiredUrlShown ==
    \A i \in 1..Len(media) :
      media[i].signedUrl # NoUrl => now < media[i].signedUrl.expires

(* ------------------------ claims: failed status change ----------------- *)
\* A status change that ran with no other mutation of the task under way and
\* whose remote update failed.
LoneStatusFailure(o) ==
    ops[o].kind = "status" /\ ops[o].alone /\ Failed(o)

NotifiedOnce(toasts, msg) ==
    /\ Cardinality({i \in 1..Len(toasts) : toasts[i].type = "error"}) = 1
    /\ \E i \in 1..Len(toasts) : toasts[i].type = "error" /\ toasts[i].text2 = msg

\* C14: every run that has ended after a remote call failed has emitted exactly
\* one error notification carrying that call's message: the selects and sign
\* calls of loadMedia and loadExpenses, the calls of onSave, of deleteExpense,
\* of processAndUpload and of deleteMedia.
C14_EveryFailureNotified ==
    /\ \A w \in Owners : loads[w].pc = "done" =>
         /\ loads[w].error # NoError => NotifiedOnce(loads[w].toasts, loads[w].error)
         /\ loads[w].signErr # NoError => NotifiedOnce(loads[w].toasts, loads[w].signErr)
    /\ \A l \in ExpLoadIds : eloads[l].pc = "done" =>
         /\ eloads[l].error # NoError => NotifiedOnce(eloads[l].toasts, eloads[l].error)
         /\ eloads[l].signErr # NoError => NotifiedOnce(eloads[l].toasts, eloads[l].signErr)
    /\ \A s \in SaveIds : saves[s].pc = "done" =>
         /\ saves[s].companyErr # NoError => NotifiedOnce(saves[s].toasts, saves[s].companyErr)
         /\ saves[s].expErr # NoError => NotifiedOnce(saves[s].toasts, saves[s].expErr)
         /\ \A k \in 1..Len(saves[s].ph) :
              saves[s].ph[k].dbErr # NoError => NotifiedOnce(saves[s].toasts, saves[s].ph[k].dbErr)
    /\ \A e \in ExpDelIds : edels[e].pc = "done" =>
         /\ edels[e].mErr # NoError => NotifiedOnce(edels[e].toasts, edels[e].mErr)
         /\ edels[e].sErr # NoError => NotifiedOnce(edels[e].toasts, edels[e].sErr)
         /\ edels[e].dErr # NoError => NotifiedOnce(edels[e].toasts, edels[e].dErr)
    /\ \A u \in UpIds : ups[u].pc = "done" =>
         (ups[u].dbErr # NoError => NotifiedOnce(ups[u].toasts, ups[u].dbErr))
    /\ \A d \in DelIds : dels[d].pc = "done" =>
         /\ dels[d].sErr # NoError => NotifiedOnce(dels[d].toasts, dels[d].sErr)
         /\ dels[d].dErr # NoError => NotifiedOnce(dels[d].toasts, dels[d].dErr)

(* ------------------------------ claims: amounts ------------------------ *)
\* C15: an onSave run with the amount text "12,50" is not rejected and sends,
\* and the remote row gets, the amount 12.50 (1250 hundredths); a run with the
\* text "0" or "-5" ends with the 'Tutar gerekli' notification and has issued
\* no remote call at all.
C15_CommaDecimalAndRejection ==
    \A s \in SaveIds :
      LET t == saves[s].amountText IN
      /\ (saves[s].pc # "idle" /\ t = <<"1", "2", ",", "5", "0">>) =>
           /\ saves[s].calls # <<>>
           /\ Called(saves[s].calls, "expense.insert") => saves[s].amount = 1250
           /\ saves[s].expenseId # 0 => expAmounts[saves[s].expenseId] = 1250
      /\ (saves[s].pc # "idle" /\ t \in {<<"0">>, <<"-", "5">>}) =>
           /\ saves[s].pc = "done"
           /\ saves[s].calls = <<>>
           /\ saves[s].expenseId = 0
           /\ saves[s].toasts = <<Toast("error", "Tutar gerekli", "amount")>>

\* C15 witness: an expense typed as "12,50" has been inserted.
C15_Witness ==
    \E s \in SaveIds :
      /\ saves[s].amountText = <<"1", "2", ",", "5", "0">>
      /\ saves[s].expenseId \in expRemote
      /\ expAmounts[saves[s].expenseId] = 1250

(* ----------------------------- claims: validation ---------------------- *)
\* The text is the decimal literal of a number greater than zero.
PositiveAmount(t) ==
    ~Number(ReplaceComma(t)).nan /\ Number(ReplaceComma(t)).milli > 0

\* C16: a create-expense, edit-expense or create-task run that was given a
\* non-positive amount or an empty title has issued no remote call, and the
\* amounts held remotely and in the in-memory list stay positive.
C16_InvalidInputRejected ==
    /\ \A s \in SaveIds :
         (saves[s].pc # "idle" /\ ~PositiveAmount(saves[s].amountText)) => saves[s].calls = <<>>
    /\ \A e \in EditIds :
         (edits[e].pc # "idle" /\ ~PositiveAmount(edits[e].amountText)) => edits[e].calls = <<>>
    /\ \A c \in CreateIds :
         (creates[c].pc # "idle" /\ Trim(creates[c].title) = <<>>) => creates[c].calls = <<>>
    /\ \A id \in expRemote : expAmounts[id] > 0
    /\ \A i \in 1..Len(expenses) : expenses[i].amount > 0

(* ------------------------------ claims: createTask --------------------- *)
Issued(c) == creates[c].calls # <<>>

\* C17: the optimistic row's id is negative and differs from the id of every
\* other create; when the insert returns (screen mounted), exactly one row,
\* the run's own optimistic row, leaves the list.
C17_LocalIdentifier ==
    /\ \A c \in CreateIds : Issued(c) => creates[c].tempId < 0
    /\ \A b, c \in CreateIds :
         (b # c /\ Issued(b) /\ Issued(c)) => creates[b].tempId # creates[c].tempId
    /\ \A c \in CreateIds :
         (Issued(c) /\ creates[c].pc = "done" /\ ~creates[c].late) => creates[c].removed = 1

(* ------------------------------- claims: unmount ----------------------- *)
\* C18: a mutation whose remote call returned after its screen was unmounted
\* has emitted no notification.
C18_SilentAfterUnmount ==
    /\ \A o \in OpIds : ops[o].late => ops[o].toasts = <<>>
    /\ \A c \in CreateIds : creates[c].late => creates[c].toasts = <<>>

(* ---------------------------- claims: storage paths -------------------- *)
\* The paths derived so far for photos of one owner, as a bag of derivations.
TaskPathRuns(p) == {u \in UpIds : ups[u].storagePath = p}

\* C19: no two uploads derive the same storage path, and every derived path
\* starts with the uploader's id and the owner entity's id.
C19_PathsDistinct ==
    /\ \A u \in UpIds : ups[u].storagePath # NoPath =>
         /\ Cardinality(TaskPathRuns(ups[u].storagePath)) = 1
         /\ ups[u].storagePath[1] = Uid /\ ups[u].storagePath[2] = TaskId
    /\ \A s \in SaveIds : \A k \in 1..Len(saves[s].ph) :
         /\ \A j \in 1..Len(saves[s].ph) :
              j # k => saves[s].ph[j].storagePath # saves[s].ph[k].storagePath
         /\ saves[s].ph[k].storagePath[1] = Uid
         /\ saves[s].ph[k].storagePath[2] = saves[s].expenseId

(* ------------------------------ claims: resize ------------------------- *)
\* C20: the result of the transform has a longer edge of at most 1600 pixels
\* and the aspect ratio of the source (a 3000x2000 source gets width 1600),
\* and it is a new file: the source is as it was.
C20_LongerEdgeClamped ==
    resized # <<>> =>
      LET src == resized.source
          out == resized.result
      IN  /\ out.w <= 1600 /\ out.h <= 1600
          /\ out.h = (src.h * out.w) \div src.w
          /\ (src.w = 3000 /\ src.h = 2000 /\ resized.reported) => out.w = 1600
          /\ out.uri # src.uri

(* ------------------------- claims: order of the steps ------------------ *)
\* The calls of a run up to and including its credential check.
UpToAuth(calls) ==
    IF \E i \in 1..Len(calls) : calls[i] = "auth"
      THEN SubSeq(calls, 1, CHOOSE i \in 1..Len(calls) : calls[i] = "auth")
      ELSE calls

\* C21: the credential check is the first step of an upload operation: no
\* transform, upload or record insert is issued before it, and a run that
\* ended for want of a credential has issued the credential check and nothing
\* else.
C21_CredentialFirst ==
    /\ \A u \in UpIds : UpToAuth(ups[u].calls) \in {<<>>, <<"auth">>}
    /\ \A s \in SaveIds : UpToAuth(saves[s].calls) \in {<<>>, <<"auth">>}
    /\ \A u \in UpIds :
         (\E i \in 1..Len(ups[u].toasts) : ups[u].toasts[i].text1 = "Oturum yok")
            => ups[u].calls = <<"auth">>
    /\ \A s \in SaveIds :
         (\E i \in 1..Len(saves[s].toasts) : saves[s].toasts[i].text2 = "Oturum bulunamadi.")
            => saves[s].calls = <<"auth">>

(* ------------------------ claims: failed record insert ----------------- *)
\* The number of times the call c occurs in calls.
RECURSIVE Count(_, _)
Count(calls, c) ==
    IF calls = <<>> THEN 0
    ELSE (IF Head(calls) = c THEN 1 ELSE 0) + Count(Tail(calls), c)

\* The task photo upload u ended because its task_media insert failed.
InsertFailed(u) == ups[u].pc = "done" /\ ups[u].dbErr # NoError

\* The save s ended because the expense_media insert of its k-th photo failed.
MediaInsertFailed(s) ==
    /\ saves[s].pc = "done"
    /\ saves[s].k \in 1..Len(saves[s].ph)
    /\ saves[s].ph[saves[s].k].dbErr # NoError

\* C22: a run whose record insert failed after the upload succeeded has issued
\* the insert once and nothing after it, its object is in storage at the
\* derived path, and its one notification carries the insert's error message.
C22_OrphanLeftInPlace ==
    /\ \A u \in UpIds : InsertFailed(u) =>
         /\ ups[u].calls = <<"manipulate", "auth", "upload", "insert">>
         /\ ups[u].storagePath \in storage
         /\ ups[u].toasts = <<Toast("error", "Kayit hatasi", ups[u].dbErr)>>
    /\ \A s \in SaveIds : MediaInsertFailed(s) =>
         /\ Count(saves[s].calls, "media.insert") = saves[s].k
         /\ Count(saves[s].calls, "upload") = saves[s].k
         /\ saves[s].calls[Len(saves[s].calls)] = "media.insert"
         /\ saves[s].ph[saves[s].k].storagePath \in expStorage
         /\ saves[s].toasts = <<Toast("error", "Hata", saves[s].ph[saves[s].k].dbErr)>>

C22_Witness ==
    /\ \E u \in UpIds : InsertFailed(u) /\ ups[u].storagePath \in storage
    /\ \E s \in SaveIds : MediaInsertFailed(s) /\ saves[s].k = 2

(* --------------------------- claims: no retries ------------------------ *)
\* No call occurs twice in the calls of one run.
NoRepeat(calls) ==
    \A i, j \in 1..Len(calls) : i # j => calls[i] # calls[j]

\* C23: within one run of setStatus / updatePriority, createTask, deleteMedia
\* or processAndUpload no remote call is issued twice, whether it failed or not.
C23_EachWriteOnce ==
    /\ \A o \in OpIds : NoRepeat(ops[o].calls) /\ Len(ops[o].calls) <= 1
    /\ \A c \in CreateIds : NoRepeat(creates[c].calls) /\ Len(creates[c].calls) <= 1
    /\ \A d \in DelIds : NoRepeat(dels[d].calls)
    /\ \A u \in UpIds : NoRepeat(ups[u].calls)

C23_Witness ==
    /\ \E o \in OpIds : ops[o].pc = "done" /\ ops[o].error # NoError
    /\ \E c \in CreateIds : creates[c].pc = "done" /\ creates[c].error # NoError
    /\ \E d \in DelIds : dels[d].pc = "done" /\ dels[d].sErr # NoError
    /\ \E u \in UpIds : ups[u].pc = "done" /\ ups[u].calls # <<>>

(* ----------------------- claims: frame of the rollback ----------------- *)
\* C24: the step in which a failed mutation rolls back leaves every field of
\* the in-memory task other than the mutation's own as it was just before the
\* step.
C24_RollbackTouchesOneField ==
    [][\A o \in OpIds :
         (/\ ops[o].pc = "replied" /\ ops'[o].pc = "done"
          /\ ops[o].error # NoError /\ mounted["detail"])
           => \A kind \in {"status", "priority"} \ {ops[o].kind} :
                FieldOf(task', kind) = FieldOf(task, kind)]_vars

(* --------------------------- claims: task list ------------------------- *)
\* C25: the in-memory task list never holds two rows with the same id (stated
\* for the ids the remote service assigned; for temporary ids see C17).
C25_NoDuplicateIds ==
    \A i, j \in 1..Len(data) :
        (i # j /\ data[i].id > 0) => data[i].id # data[j].id

\* C29: the step in which a load's response is put into the list never
\* replaces the differing result of a load issued later for another tab.
C29_LaterTabWins ==
    [][\A l, m \in ListIds :
         (/\ l < m
          /\ lists[l].pc = "selected" /\ lists'[l].pc = "done"
          /\ lists[m].pc = "done" /\ lists[m].error = NoError
          /\ lists[m].tab # lists[l].tab
          /\ data = lists[m].rows /\ lists[l].rows # lists[m].rows)
           => data' = data]_vars

(* ------------------------ claims: attachment list ---------------------- *)
\* C26: the in-memory attachment list never holds the same attachment id twice.
C26_NoDuplicateMedia ==
    \A i, j \in 1..Len(media) : i # j => media[i].id # media[j].id

(* ---------------------------- claims: uploading ------------------------ *)
\* The processAndUpload run u has started and not finished.
UploadRunning(u) == ups[u].pc \notin {"idle", "done"}

\* C27: the uploading flag is set in every state in which a processAndUpload
\* run has started and not finished.
C27_UploadingWhileRunning ==
    (\E u \in UpIds : UploadRunning(u)) => uploading

(* ----------------------- claims: photos of an expense ------------------ *)
\* The save s ended at its k-th photo: the upload or the record insert failed.
PhotoFailed(s) ==
    /\ saves[s].pc = "done"
    /\ saves[s].k \in 1..Len(saves[s].ph)
    /\ \/ ExpUploadRefused(saves[s].ph[saves[s].k].status)
       \/ saves[s].ph[saves[s].k].dbErr # NoError

\* C28: a save that ended at its k-th photo has transformed and uploaded k
\* photos and no more, the expense row and the records of the photos before k
\* are in place, one error notification was emitted and the screen has not
\* navigated back.
C28_StopsAtFailedPhoto ==
    \A s \in SaveIds : PhotoFailed(s) =>
        /\ Len(saves[s].ph) = saves[s].k
        /\ Count(saves[s].calls, "manipulate") = saves[s].k
        /\ Count(saves[s].calls, "upload") = saves[s].k
        /\ Count(saves[s].calls, "media.insert") <= saves[s].k
        /\ saves[s].expenseId \in expRemote
        /\ \A j \in 1..(saves[s].k - 1) :
             [expense_id |-> saves[s].expenseId,
              storage_path |-> saves[s].ph[j].storagePath] \in expMedia
        /\ Len(saves[s].toasts) = 1 /\ saves[s].toasts[1].type = "error"
        /\ ~saves[s].wentBack

C28_Witness ==
    \E s \in SaveIds :
        /\ PhotoFailed(s)
        /\ saves[s].k < saves[s].n
        /\ ExpUploadRefused(saves[s].ph[saves[s].k].status)

(* ------------------- claims: the list during deleteExpense ------------- *)
\* The error deleteExpense run e was thrown, NoError when none.
ExpDelError(e) ==
    IF edels[e].mErr # NoError THEN edels[e].mErr
    ELSE IF edels[e].sErr # NoError THEN edels[e].sErr
    ELSE edels[e].dErr

\* C30: a step of a deleteExpense run changes the in-memory expense list only
\* by taking its row out after the remote delete succeeded; a run whose
\* attachment query, storage removal or expense delete failed ends with one
\* error notification carrying the message.
C30_UnlistedAfterRemoteDelete ==
    /\ [][\A e \in ExpDelIds : edels'[e] # edels[e] =>
            \/ expenses' = expenses
            \/ /\ edels[e].pc = "edeleted" /\ ExpDelError(e) = NoError
               /\ edels[e].row.id \notin expRemote
               /\ expenses' = FilterOutExpense(expenses, edels[e].row.id)]_vars
    /\ [](\A e \in ExpDelIds :
            (edels[e].pc = "done" /\ ExpDelError(e) # NoError)
              => edels[e].toasts = <<Toast("error", "Hata", ExpDelError(e))>>)

C30_Witness ==
    \E e \in ExpDelIds :
        /\ edels[e].pc = "done" /\ edels[e].dErr # NoError
        /\ InList(expenses, edels[e].row.id)

====
